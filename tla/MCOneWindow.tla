---------------------------- MODULE MCOneWindow ----------------------------
(* Small instances of OneWindow. *)
EXTENDS OneWindow

Everything == [c \in Clients |-> Commands]

\* A first run, and a fleet as an older build or a hand edit may have left it
\* (the lowest rate there is, one host paused), local and in remote mode.
Plain(p) == [paused |-> p, rate |-> None, os |-> CHOOSE os \in OSes : TRUE, group |-> None]
Left(s, one) ==
  [BlankFile EXCEPT !.rate = CHOOSE r \in Rates : \A q \in Rates : r <= q,
     !.server = s, !.hosts = [h \in Hosts |-> Plain(h = one)]]
LeftBehind ==
  {BlankFile} \cup {Left(s, one) : s \in Servers \cup {None}, one \in Hosts}
=============================================================================
