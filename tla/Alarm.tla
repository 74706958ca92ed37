------------------------------- MODULE Alarm -------------------------------
(***************************************************************************)
(* The domain alarm table as its users see it: the saHpiAlarm* calls of    *)
(* openhpid/safhpi.c, the alarm detection the event thread and the sensor  *)
(* and severity calls run, a client walking the table with                 *)
(* saHpiAlarmGetNext, and a restart of the daemon, which reads back the    *)
(* file oh_alarms_to_file wrote, the part of it that was written before a  *)
(* crash or on a full disk, or an older file when the new one could not be *)
(* opened.  Every action holds the domain lock.                            *)
(***************************************************************************)
EXTENDS Dat

CONSTANT MaxAlarmId   \* bound: alarms are only raised while next_id is below

ASSUME MaxAlarmIdAssumption == MaxAlarmId \in Nat

VARIABLES
  dat,      \* struct oh_dat and its file
  walk,     \* a client's saHpiAlarmGetNext loop
  asserted, \* history: the <<rid, num, state>> that hold as far as the sensor
            \* events processed, or at a restart the file, tell
  issued,   \* history: the highest alarm id given out
  whole     \* history: the last save wrote the whole table

vars == <<dat, walk, asserted, issued, whole>>

\* The walk: its filter, the alarm id it passes next, the alarms it returned.
Walks == [open : BOOLEAN, sev : Severities \union {ALL_SEVERITIES},
          unack : BOOLEAN, aid : Nat, start : SUBSET Nat, seen : SUBSET Nat,
          ended : BOOLEAN]
NoWalk == [open |-> FALSE, sev |-> ALL_SEVERITIES, unack |-> FALSE, aid |-> 0,
           start |-> {}, seen |-> {}, ended |-> FALSE]

Init ==
  /\ dat = EmptyDat
  /\ walk = NoWalk
  /\ asserted = {}
  /\ issued = 0
  /\ whole = TRUE

Ids(list) == {a.id : a \in list}
SensorConds == Resources \X Nums \X States

\* What can be on disk after oh_alarms_to_file: the old file, if fopen fails;
\* otherwise "wb" truncates it, the alarms are written one by one, and a
\* failing write or a crash leaves those up to some id.
Written(old, file, last) ==
  {old} \union {{a \in file : a.id <= cut} : cut \in 0 .. last}

\* Every action ends by installing the new table.  An addition has saved it, as
\* far as that went; the history follows.
Install(d) ==
  /\ IF DatSave /\ d.next_id > dat.next_id
     THEN \E file \in Written(dat.file, d.file, d.next_id) :
            /\ dat' = [d EXCEPT !.file = file]
            /\ whole' = (file = d.file)
     ELSE dat' = d /\ UNCHANGED whole
  /\ issued' = IF d.next_id > issued THEN d.next_id ELSE issued

MayRaise == dat.next_id < MaxAlarmId

----------------------------------------------------------------------------
(* HPI calls. *)

\* saHpiAlarmAdd.
AlarmAdd(sev) ==
  /\ MayRaise
  /\ Alarming(sev)
  /\ Install(AddAlarm(dat, Cond("USER", sev, None, None, None)))
  /\ UNCHANGED <<walk, asserted>>

\* saHpiAlarmDelete of one alarm: unlinked from the list, nothing else.
AlarmDelete(aid) ==
  /\ \E a \in dat.list :
       /\ a.id = aid
       /\ a.cond.type = "USER"
       /\ Install([dat EXCEPT !.list = @ \ {a}])
  /\ UNCHANGED <<walk, asserted>>

MatchesSeverity(a, sev) == sev = ALL_SEVERITIES \/ a.cond.sev = sev

\* saHpiAlarmDelete of all user alarms of a severity.
AlarmDeleteSeverity(sev) ==
  /\ Install(RemoveAlarms(dat, {a \in UserAlarms(dat.list) : MatchesSeverity(a, sev)}))
  /\ UNCHANGED <<walk, asserted>>

Acknowledge(acked) ==
  [dat EXCEPT !.list = (@ \ acked) \union {[a EXCEPT !.ack = TRUE] : a \in acked}]

\* saHpiAlarmAcknowledge, of one alarm or of all of a severity.
AlarmAcknowledge(aid) ==
  /\ aid \in Ids(dat.list)
  /\ Install(Acknowledge({a \in dat.list : a.id = aid}))
  /\ UNCHANGED <<walk, asserted>>

AlarmAcknowledgeSeverity(sev) ==
  /\ Install(Acknowledge({a \in dat.list : MatchesSeverity(a, sev)}))
  /\ UNCHANGED <<walk, asserted>>

----------------------------------------------------------------------------
(* saHpiAlarmGetNext. *)

Matches(a, w) == MatchesSeverity(a, w.sev) /\ (w.unack => ~a.ack)

\* A client starts at SAHPI_FIRST_ENTRY.
WalkStart(sev, unack) ==
  /\ ~walk.open
  /\ walk' = [NoWalk EXCEPT !.open = TRUE, !.sev = sev, !.unack = unack,
                            !.start = Ids({a \in dat.list :
                                             Matches(a, [sev |-> sev, unack |-> unack])})]
  /\ UNCHANGED <<dat, asserted, issued, whole>>

\* Mutant: the id after aid is skipped.
NextAlarmsSkip(w) == {a \in dat.list : a.id > w.aid + 1 /\ Matches(a, w)}

\* __get_alarm_node with get_next: the first alarm after aid that matches.
NextAlarms(w) == {a \in dat.list : a.id > w.aid /\ Matches(a, w)}

AlarmGetNext ==
  /\ walk.open
  /\ ~walk.ended
  /\ IF NextAlarms(walk) = {}
     THEN walk' = [walk EXCEPT !.ended = TRUE]      \* SA_ERR_HPI_NOT_PRESENT
     ELSE \E a \in NextAlarms(walk) :
            /\ \A b \in NextAlarms(walk) : a.id <= b.id
            /\ walk' = [walk EXCEPT !.aid = a.id, !.seen = @ \union {a.id}]
  /\ UNCHANGED <<dat, asserted, issued, whole>>

WalkEnd ==
  /\ walk.ended
  /\ walk' = NoWalk
  /\ UNCHANGED <<dat, asserted, issued, whole>>

----------------------------------------------------------------------------
(* Alarm detection. *)

OfSensor(rid, num) == {c \in SensorConds : c[1] = rid /\ c[2] = num}

\* History: what a sensor event tells of the states of its sensor, whatever
\* the code makes of it: all of them if it carries CurrentState, and its own.
Told(rid, num, state, assertion, current) ==
  LET known == IF current = None THEN asserted
               ELSE (asserted \ OfSensor(rid, num)) \union
                      {c \in OfSensor(rid, num) : c[3] \in current}
  IN  IF assertion THEN known \union {<<rid, num, state>>}
                   ELSE known \ {<<rid, num, state>>}

\* A sensor event, processed by oh_detect_event_alarm.
SensorEvent(rid, num, state, sev, assertion, current) ==
  /\ assertion => MayRaise
  /\ Install(DetectSensor(dat, rid, num, state, sev, assertion, current))
  /\ asserted' = Told(rid, num, state, assertion, current)
  /\ UNCHANGED walk

\* A SENSOR_ENABLE_CHANGE event, saHpiSensorEnableSet, saHpiSensorEventEnableSet.
SensorDisable(rid, num) ==
  /\ Install(DetectEnable(dat, rid, num, FALSE))
  /\ UNCHANGED <<walk, asserted>>

\* saHpiSensorEventMasksSet removing deassert events from the mask.
SensorEventMasksSet(rid, num, mask) ==
  /\ Install(DetectMask(dat, rid, num, mask))
  /\ UNCHANGED <<walk, asserted>>

\* An OEM event.
OemEvent(rid, mid, sev) ==
  /\ Alarming(sev) => MayRaise
  /\ Install(DetectOem(dat, rid, mid, sev))
  /\ UNCHANGED <<walk, asserted>>

\* A resource event, judged by the ResourceFailed and severity of its RPT
\* entry or, when it is bare, by its kind.  RESOURCE_REMOVED is no failure: it
\* clears the resource's RESOURCE alarms and leaves its sensor alarms.
ResourceEvent(rid, bare, failed, sev) ==
  /\ failed => MayRaise
  /\ Install(IF bare THEN DetectResourceEvent(dat, rid, failed, sev)
                     ELSE DetectResource(dat, rid, failed, sev))
  /\ UNCHANGED <<walk, asserted>>

\* saHpiResourceSeveritySet from an alarming to another severity.
ResourceSeveritySet(rid) ==
  /\ Install(RemoveResourceAlarms(dat, rid, FALSE))
  /\ UNCHANGED <<walk, asserted>>

\* A hot swap event to NOT_PRESENT.
ResourceGone(rid) ==
  /\ Install(RemoveResourceAlarms(dat, rid, TRUE))
  /\ UNCHANGED <<walk, asserted>>

\* The daemon stops or crashes and starts again: oh_create_domain makes a
\* new table and, with OPENHPI_DAT_SAVE, loads the file.
Restart ==
  /\ dat' = IF DatSave THEN LoadDat(dat.file) ELSE EmptyDat
  /\ walk' = NoWalk
  /\ asserted' = {<<a.cond.rid, a.cond.num, a.cond.state>> :
                  a \in {b \in dat'.list : b.cond.type = "SENSOR"}}
  /\ issued' = IF DatSave /\ whole THEN issued ELSE dat'.next_id
  /\ UNCHANGED whole

----------------------------------------------------------------------------
Client ==
  \/ \E sev \in Severities : AlarmAdd(sev)
  \/ \E aid \in 1 .. MaxAlarmId : AlarmDelete(aid) \/ AlarmAcknowledge(aid)
  \/ \E sev \in Severities \union {ALL_SEVERITIES} :
       \/ AlarmDeleteSeverity(sev)
       \/ AlarmAcknowledgeSeverity(sev)
       \/ \E unack \in BOOLEAN : WalkStart(sev, unack)
  \/ AlarmGetNext
  \/ WalkEnd

Detect ==
  \E rid \in Resources :
    \/ \E num \in Nums :
         \/ \E state \in States, sev \in Severities, assertion \in BOOLEAN,
               current \in {None} \union SUBSET States :
              SensorEvent(rid, num, state, sev, assertion, current)
         \/ SensorDisable(rid, num)
         \/ \E mask \in SUBSET States : SensorEventMasksSet(rid, num, mask)
         \/ \E sev \in Severities : OemEvent(rid, num, sev)
    \/ \E bare, failed \in BOOLEAN, sev \in Severities :
         ResourceEvent(rid, bare, failed, sev)
    \/ ResourceSeveritySet(rid)
    \/ ResourceGone(rid)

Next == Client \/ Detect \/ Restart

Spec == Init /\ [][Next]_vars

----------------------------------------------------------------------------
(* Properties. *)

\* Every variable stays in its type.
TypeOK ==
  /\ dat \in [next_id : Nat, list : SUBSET Alarms, update_count : 0 .. CountMod - 1,
              overflow : BOOLEAN, file : SUBSET Alarms]
  /\ walk \in Walks
  /\ asserted \subseteq SensorConds
  /\ issued \in Nat
  /\ whole \in BOOLEAN

\* No alarm has an id above next_id and no two alarms share one, in the table
\* and in its file: list order is id order, which the AlarmId > aid test of
\* __get_alarm_node needs, and ++next_id yields a new id, also after a restart
\* from a file that was cut short.
IdsBelowNext ==
  /\ \A a \in dat.list \union dat.file : a.id <= dat.next_id
  /\ \A a, b \in dat.list : a.id = b.id => a = b
  /\ \A a, b \in dat.file : a.id = b.id => a = b

\* An alarm id is never given out twice while the table is persisted and no
\* save was cut short: removals are not saved, but the file always holds the
\* alarm added last, so a restart restores next_id.
IdsNeverReused == dat.next_id >= issued

\* The configured limits hold, also for a table loaded from its file.
Limits ==
  /\ SizeLimit # 0 => Cardinality(dat.list) <= SizeLimit
  /\ UserLimit # 0 => Cardinality(UserAlarms(dat.list)) <= UserLimit

\* A sensor alarm stands for an event state that still holds as far as the
\* sensor's events tell: once an event deasserts the state, or leaves it out
\* of CurrentState, no alarm of it is left, however often it was raised and
\* whatever calls, refusals and other events came between, until an event
\* asserts it again or a restart reads it from the file.  It says nothing of
\* sensors that are disabled or resources that are removed.
NoStaleSensorAlarm ==
  \A a \in dat.list : a.cond.type = "SENSOR" =>
     <<a.cond.rid, a.cond.num, a.cond.state>> \in asserted

\* A client that walks the table to its end has been given every alarm that
\* matched when it began and still does, whatever was added, deleted or
\* acknowledged meanwhile.
WalkComplete ==
  walk.ended =>
    \A a \in dat.list : a.id \in walk.start /\ Matches(a, walk) => a.id \in walk.seen
=============================================================================
