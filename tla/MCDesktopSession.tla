-------------------------- MODULE MCDesktopSession --------------------------
(* Finite instances of DesktopSession, named by session.cfg and             *)
(* session_limit.cfg.                                                       *)
EXTENDS DesktopSession, TLC

CONSTANTS home, MaxOpen

Known == {t.request : t \in tasks} \cup {saved} \cup {s.request : s \in {app.session} \ {None}}

\* The bounds: the last thing is asked for in behaviours of one account only, and
\* no more than MaxOpen dialogs lie over the window at a time.
Within ==
    /\ asked # asked' /\ asked' = MaxAsked =>
         /\ form.account \in {home, None}
         /\ \A r \in Known \ {None} : r.account = home /\ r.board = home
    /\ Cardinality(open' \cup ({dialog'} \ {"none"})) <= MaxOpen

SmallSpec == Init /\ [][Next /\ Within]_vars /\ Fairness
=============================================================================
