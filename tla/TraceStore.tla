------------------------------ MODULE TraceStore ------------------------------
(***************************************************************************)
(* app/services/publish_trace_store.py: mqtt_publish_traces.json is a list *)
(* of outcomes, the newest last.  An append reads the list, and writes it  *)
(* back with its own entry; the modules of the handlers have the steps.    *)
(***************************************************************************)
EXTENDS Naturals, Sequences

CONSTANTS
  MaxEntries,     \* _max_entries
  Torn            \* a file truncated and not filled

ASSUME MaxEntriesAssumption == MaxEntries \in Nat \ {0}

\* _load_all: a list that does not parse is empty.
Loaded(file) == IF file = Torn THEN <<>> ELSE file

\* Mutant: the list is never cut.
KeepAll(list) == list
KeepNewest(list) ==
  IF Len(list) > MaxEntries
  THEN SubSeq(list, Len(list) - MaxEntries + 1, Len(list)) ELSE list

\* What append writes.
WithEntry(list, entry) == KeepNewest(Append(list, entry))

\* list_recent: the newest entries first.
Recent(file, limit) ==
  LET list == Loaded(file)
      bounded == IF limit > MaxEntries THEN MaxEntries ELSE IF limit < 1 THEN 1 ELSE limit
      n == IF Len(list) < bounded THEN Len(list) ELSE bounded
  IN [i \in 1..n |-> list[Len(list) + 1 - i]]
=============================================================================
