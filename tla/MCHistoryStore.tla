--------------------------- MODULE MCHistoryStore ---------------------------
(* A small store: two hosts, whose samples bring a reading at a time or a      *)
(* sensor, under limits that some sheddings, all of them or none can meet.     *)
EXTENDS HistoryStore, TLC

Composite == [driver |-> "nvme", label |-> "Composite"]
Plain(driver) == [driver |-> driver, label |-> ""]

Bare == [has |-> {}, temps |-> <<>>, cores |-> 0]

\* A sample with two sensors of a driver that has no labels, and one with a
\* second driver in front of them.
PlainFrames ==
  {[Bare EXCEPT !.temps = <<Plain("acpi"), Plain("acpi")>>],
   [has |-> {"mem"}, cores |-> 2, temps |-> <<Composite, Plain("acpi"), Plain("acpi")>>]}

AnyHost == Permutations(Hosts)

Rings == <<4, 6, 3>>
=============================================================================
