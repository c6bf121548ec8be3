--------------------------- MODULE MCDesktopOutbox ----------------------------
(***************************************************************************)
(* The outbox of the desktop client in one tab, with retries, reloads and  *)
(* 401s, and in two tabs that write the same key.                          *)
(***************************************************************************)
EXTENDS DesktopOutbox
CONSTANTS t1, t2, m1, m2
TwoTabs == {t1, t2}
TwoMessages == {m1, m2}
OnlyM2 == {m2}
(* The conversation of m2 is younger than the session, or is not.          *)
Views == <<{{m1, m2}, {m1}}, {{m1, m2}}>>
OneOrTwo == {{t1}, {t1, t2}}
OneTab == {{t1}}
SmallLimits == <<[attempts |-> 2, turns |-> 1, requests |-> 2, sockets |-> TRUE],
                 [attempts |-> 1, turns |-> 0, requests |-> 1, sockets |-> FALSE]>>
===============================================================================
