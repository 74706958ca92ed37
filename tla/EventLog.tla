------------------------------ MODULE EventLog ------------------------------
(***************************************************************************)
(* The domain event log: oh_el of utils/el_utils.c as the daemon uses it.  *)
(* The event thread logs events (oh_add_event_to_del, openhpid/event.c),   *)
(* clients add, read, clear, disable and reset with the saHpiEventLog*     *)
(* calls of openhpid/safhpi.c, the log is saved after every addition and   *)
(* loaded when the daemon starts again, whatever part of the file had been *)
(* written, if any.  Every action holds the domain lock; between two reads *)
(* of one client anything may happen.  Logged events are numbered in the   *)
(* order of their logging; the numbers of those a restart has lost are     *)
(* used again.                                                             *)
(***************************************************************************)
EXTENDS Integers, Sequences

CONSTANTS Size,       \* OPENHPI_DEL_SIZE_LIMIT, 0 is unlimited
          DelSave,    \* OPENHPI_DEL_SAVE
          MaxEvents   \* bound: how many events are logged

ASSUME LogAssumption == Size \in Nat /\ DelSave \in BOOLEAN /\ MaxEvents \in Nat

VARIABLES
  list,      \* el->list: entries, oldest first
  nextid,    \* el->nextid
  overflow,  \* el->info.OverflowFlag
  enabled,   \* el->info.Enabled
  file,      \* the entries in the file of the log
  walk,      \* a client's saHpiEventLogEntryGet loop
  count,     \* history: number of the last event logged
  since      \* history: count when the flag was last reset or the log emptied

vars == <<list, nextid, overflow, enabled, file, walk, count, since>>

\* Entry ids by which a client starts, and what ends its walk.
OLDEST == 0
NO_MORE == -1

Entries == [id : 1 .. MaxEvents + 1, ev : 1 .. MaxEvents]

\* The client follows NextEntryId (step 1) or PrevEntryId (step -1); at is the
\* id it asks for next, read and before the last two events it got.
Walks == [step : {-1, 0, 1}, at : {NO_MORE, OLDEST} \union 1 .. MaxEvents + 1,
          read : 0 .. MaxEvents, before : 0 .. MaxEvents, cleared : BOOLEAN]
NoWalk == [step |-> 0, at |-> NO_MORE, read |-> 0, before |-> 0, cleared |-> FALSE]

\* oh_el_create.
Init ==
  /\ list = <<>>
  /\ nextid = 1
  /\ overflow = FALSE
  /\ enabled = TRUE
  /\ file = <<>>
  /\ walk = NoWalk
  /\ count = 0
  /\ since = 0

----------------------------------------------------------------------------
(* Additions. *)

\* Mutant: the limit is tested with > instead of =.
FullLate == Size # 0 /\ Len(list) > Size

Full == Size # 0 /\ Len(list) = Size

\* Mutant: the newest entry gives way.
MakeRoomLast == IF Full THEN SubSeq(list, 1, Len(list) - 1) ELSE list

\* "if necessary, wrap the el entries": the oldest gives way.
MakeRoom == IF Full THEN Tail(list) ELSE list

\* oh_el_append of the next event.
AppendNext ==
  /\ list' = Append(MakeRoom, [id |-> nextid, ev |-> count + 1])
  /\ overflow' = (overflow \/ Full)
  /\ nextid' = nextid + 1
  /\ count' = count + 1

\* oh_el_map_to_file truncates the file and writes entry by entry: a failing
\* write or a crash leaves the first ones, a failing fopen the old file.
Save ==
  \/ DelSave /\ \E n \in 0 .. Len(list') : file' = SubSeq(list', 1, n)
  \/ UNCHANGED file

\* oh_add_event_to_del for an event that is to be logged.  The log is saved
\* also when it is disabled and takes nothing.
LogEvent ==
  /\ count < MaxEvents
  /\ IF enabled THEN AppendNext ELSE UNCHANGED <<list, overflow, nextid, count>>
  /\ Save
  /\ UNCHANGED <<enabled, walk, since>>

\* saHpiEventLogEntryAdd: a user event goes into a disabled log too.
EntryAdd ==
  /\ count < MaxEvents
  /\ AppendNext
  /\ Save
  /\ UNCHANGED <<enabled, walk, since>>

----------------------------------------------------------------------------
(* Control. *)

\* saHpiEventLogClear -> oh_el_clear: ids start again, the file is not written.
Clear ==
  /\ list' = <<>>
  /\ overflow' = FALSE
  /\ nextid' = 1
  /\ walk' = [walk EXCEPT !.cleared = TRUE]
  /\ since' = count
  /\ UNCHANGED <<enabled, file, count>>

\* saHpiEventLogStateSet -> oh_el_enableset.
StateSet(enable) ==
  /\ enabled' = enable
  /\ UNCHANGED <<list, nextid, overflow, file, walk, count, since>>

\* saHpiEventLogOverflowReset -> oh_el_overflowreset.
OverflowReset ==
  /\ overflow' = FALSE
  /\ since' = count
  /\ UNCHANGED <<list, nextid, enabled, file, walk, count>>

\* Mutant: ids resume from the number of entries.
NextIdFromLength(entries) == Len(entries) + 1

\* nextid after oh_el_map_from_file: one more than that of the last entry read.
NextIdOf(entries) == IF entries = <<>> THEN 1 ELSE entries[Len(entries)].id + 1

\* The daemon starts again: oh_create_domain makes a log and loads the file.
\* Nothing compares its length with the limit.
Restart ==
  /\ list' = IF DelSave THEN file ELSE <<>>
  /\ nextid' = NextIdOf(list')
  /\ overflow' = FALSE
  /\ enabled' = TRUE
  /\ walk' = NoWalk
  /\ count' = IF list' = <<>> THEN count ELSE list'[Len(list')].ev
  /\ since' = count'
  /\ UNCHANGED file

----------------------------------------------------------------------------
(* Reading. *)

\* A client starts at SAHPI_OLDEST_ENTRY and goes forward, or at
\* SAHPI_NEWEST_ENTRY and goes back.
WalkStart(step) ==
  /\ walk.step = 0
  /\ walk' = [NoWalk EXCEPT !.step = step, !.at = OLDEST]
  /\ UNCHANGED <<list, nextid, overflow, enabled, file, count, since>>

\* oh_el_get: the entry asked for, by its place; the first one with the id.
Found ==
  IF walk.at = OLDEST
  THEN {i \in 1 .. Len(list) : i = IF walk.step = 1 THEN 1 ELSE Len(list)}
  ELSE {i \in 1 .. Len(list) : /\ list[i].id = walk.at
                               /\ \A j \in 1 .. i - 1 : list[j].id # walk.at}

\* The id of the entry beside the i-th.
Beside(i) ==
  IF i + walk.step \in 1 .. Len(list) THEN list[i + walk.step].id ELSE NO_MORE

\* saHpiEventLogEntryGet; an entry that is not there ends the walk.
EntryGet ==
  /\ walk.step # 0
  /\ walk.at # NO_MORE
  /\ IF Found = {}
     THEN walk' = NoWalk
     ELSE \E i \in Found :
            walk' = [walk EXCEPT !.at = Beside(i), !.read = list[i].ev,
                                 !.before = walk.read]
  /\ UNCHANGED <<list, nextid, overflow, enabled, file, count, since>>

WalkEnd ==
  /\ walk.step # 0
  /\ walk.at = NO_MORE
  /\ walk' = NoWalk
  /\ UNCHANGED <<list, nextid, overflow, enabled, file, count, since>>

----------------------------------------------------------------------------
Next ==
  \/ LogEvent \/ EntryAdd
  \/ Clear \/ OverflowReset \/ Restart
  \/ \E enable \in BOOLEAN : StateSet(enable)
  \/ \E step \in {-1, 1} : WalkStart(step)
  \/ EntryGet \/ WalkEnd

Spec == Init /\ [][Next]_vars

----------------------------------------------------------------------------
(* Properties. *)

\* Every variable stays in its type.
TypeOK ==
  /\ list \in Seq(Entries)
  /\ nextid \in 1 .. MaxEvents + 1
  /\ overflow \in BOOLEAN /\ enabled \in BOOLEAN
  /\ file \in Seq(Entries)
  /\ walk \in Walks
  /\ count \in 0 .. MaxEvents /\ since \in 0 .. MaxEvents

\* Entries are in the order of their ids and of their events, below the next id,
\* in the log and in its file, also after a clear, which starts the ids again,
\* and after a restart from a file that was cut short: an id names one entry.
Ascending(entries) ==
  \A i, j \in 1 .. Len(entries) :
    i < j => entries[i].id < entries[j].id /\ entries[i].ev < entries[j].ev
IdsNameEntries ==
  /\ Ascending(list) /\ Ascending(file)
  /\ \A i \in 1 .. Len(list) : list[i].id < nextid

\* A client that follows the ids it is given, while entries are added, overwritten
\* and the log is disabled, reads neighbours: it is refused when its entry was
\* overwritten, and never led past an event or back.  Going forward it does not
\* go back even when the log is cleared and the ids start again.
WalkReadsNeighbours ==
  walk.before # 0 =>
    IF walk.cleared
    THEN walk.step = 1 => walk.before < walk.read
    ELSE walk.read = walk.before + walk.step

\* The log keeps to its size, and while OverflowFlag is not set it holds every
\* event logged since the flag was last reset, the log cleared or the daemon
\* started.
OverflowTold ==
  /\ Size # 0 => Len(list) <= Size
  /\ ~overflow =>
       \A e \in since + 1 .. count : \E i \in 1 .. Len(list) : list[i].ev = e
=============================================================================
