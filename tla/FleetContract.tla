--------------------------- MODULE FleetContract ---------------------------
(***************************************************************************)
(* What the command plane promises a single window, command by command:   *)
(* the file changes in the one way the command says, and the samplers are  *)
(* exactly those the new file asks for (ADR-012, ADR-017 and ADR-018 of    *)
(* docs/DECISIONS.md).  Nothing here says how, or in how many steps.       *)
(***************************************************************************)
CONSTANTS Hosts, None, HostConfig, Servers, Endpoints, Prefs, Groups, OSes,
          Intervals,    \* the sampling intervals a request can set
          Limits,       \* the history limits a request can set
          FirstFiles,   \* what hosts.toml may hold when the program first starts
          Blank,        \* how an empty hosts.toml reads
          Mortal,       \* whether the program may die
          Running(_, _) \* Running(f, h): the sampler f asks for h, or None

VARIABLES conf, watched

contract == <<conf, watched>>

WatchedFor(f) == [h \in Hosts |-> Running(f, h)]

Init == conf \in FirstFiles /\ watched = WatchedFor(conf)

-----------------------------------------------------------------------------
(* The edits, from a file f to a file g. *)

WithHost(f, h, cfg) == [f EXCEPT !.hosts[h] = cfg]

AddHost(f, g) ==
  \E h \in Hosts, cfg \in HostConfig : f.hosts[h] = None /\ g = WithHost(f, h, cfg)

RemoveHost(f, g) == \E h \in Hosts : g = WithHost(f, h, None)

\* One thing about one listed host: its interval, its group, its system, or
\* whether it is paused.
SetHost(f, g) ==
  \E h \in Hosts :
    /\ f.hosts[h] # None
    /\ \/ \E r \in Intervals \cup {None} : g = WithHost(f, h, [f.hosts[h] EXCEPT !.rate = r])
       \/ \E l \in Groups \cup {None} : g = WithHost(f, h, [f.hosts[h] EXCEPT !.group = l])
       \/ \E os \in OSes : g = WithHost(f, h, [f.hosts[h] EXCEPT !.os = os])
       \/ \E p \in BOOLEAN : g = WithHost(f, h, [f.hosts[h] EXCEPT !.paused = p])

SetFleet(f, g) ==
  \E r \in Intervals, m \in Limits, p \in Prefs :
    g = [f EXCEPT !.rate = r, !.cap = m, !.prefs = p]

\* Window preferences and saved endpoints are this machine's own.
SetPrefs(f, g) == \E p \in Prefs : g = [f EXCEPT !.prefs = p]

SetSaved(f, g) ==
  \/ \E e \in Endpoints : g = [f EXCEPT !.saved = @ \cup {e}]
  \/ \E e \in Endpoints : g = [f EXCEPT !.saved = @ \ {e}]
  \/ \E e \in f.saved, name \in Endpoints :
       name \notin f.saved \ {e} /\ g = [f EXCEPT !.saved = (@ \ {e}) \cup {name}]

Switch(f, g) == \E s \in Servers \cup {None} : g = [f EXCEPT !.server = s]

\* The fleet is edited only while this machine does the sampling.
Edit(f, g) ==
  \/ f.server = None /\ (AddHost(f, g) \/ RemoveHost(f, g) \/ SetHost(f, g) \/ SetFleet(f, g))
  \/ SetPrefs(f, g) \/ SetSaved(f, g) \/ Switch(f, g)

-----------------------------------------------------------------------------
Command == Edit(conf, conf') /\ watched' = WatchedFor(conf')

\* Dying costs at worst the whole file, never a part of it, and the program
\* that is started again watches what is left.
LoseFile == Mortal /\ conf' = Blank /\ watched' = WatchedFor(Blank)

Next == Command \/ LoseFile

Spec == Init /\ [][Next]_contract
=============================================================================
