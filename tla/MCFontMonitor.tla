--------------------------- MODULE MCFontMonitor ---------------------------
(* An instance of FontMonitor: u is USER_DISTRO_FONT_PATH. *)
EXTENDS FontMonitor

X == <<"u", "X11">>
O == <<"u", "o">>
S == <<"u", "X11", "s">>
T == <<"u", "o", "s">>

MCPath  == {<<"u">>, X, O, S, T}
MCRoots == {<<"u">>}
MCMount == <<"u">>
MCTrees == {{<<"u">>, X}, {<<"u">>, X, S}}
=============================================================================
