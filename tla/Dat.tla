-------------------------------- MODULE Dat --------------------------------
(***************************************************************************)
(* The domain alarm table of openhpid/alarm.c: struct oh_dat and the       *)
(* functions every change of it goes through.  All of them run with the    *)
(* domain locked, so a change is an operator from one table to the next.   *)
(*                                                                         *)
(* dat.list is kept as the set of its alarms.  The code appends with       *)
(* ++next_id, so list order is the order of the alarm ids, as long as no   *)
(* id exceeds next_id: that is IdsBelowNext of module Alarm.               *)
(***************************************************************************)
EXTENDS Integers, FiniteSets

CONSTANTS Resources,   \* resource ids of the domain
          Nums,        \* sensor numbers; also the manufacturer ids of OEM alarms
          States,      \* event states of a sensor (bits of SaHpiEventStateT)
          Severities,  \* severities that occur, a set of SaHpiSeverityT values
          SizeLimit,   \* OPENHPI_DAT_SIZE_LIMIT, 0 is unlimited
          UserLimit,   \* OPENHPI_DAT_USER_LIMIT, 0 is unlimited
          DatSave,     \* OPENHPI_DAT_SAVE
          CountMod,    \* update_count wraps here; 2^32 in the code
          None         \* the value of an alarm field that does not apply

MINOR == 2
ALL_SEVERITIES == 255

ASSUME SeveritiesAssumption == Severities \subseteq 0 .. 4
ASSUME LimitsAssumption ==
  SizeLimit \in Nat /\ UserLimit \in Nat /\ DatSave \in BOOLEAN
  /\ CountMod \in Nat \ {0}

Types == {"SENSOR", "RESOURCE", "OEM", "USER"}

\* SaHpiConditionT with the severity: what an alarm is about.
Conditions ==
  [type : Types, sev : Severities, rid : Resources \union {None},
   num : Nums \union {None}, state : States \union {None}]

\* SaHpiAlarmT.
Alarms == [id : Nat, ack : BOOLEAN, cond : Conditions]

\* struct oh_dat, with the file it is saved to.
EmptyDat == [next_id |-> 0, list |-> {}, update_count |-> 0,
             overflow |-> FALSE, file |-> {}]

\* "Alarming" severities.
Alarming(sev) == sev <= MINOR

UserAlarms(list) == {a \in list : a.cond.type = "USER"}

\* __update_dat.
UpdateDat(dat) == [dat EXCEPT !.update_count = (@ + 1) % CountMod]

\* Mutant: one alarm too many is let in.
SizeFullLate(list) == SizeLimit # 0 /\ Cardinality(list) > SizeLimit

\* The two limit checks of oh_add_alarm.
SizeFull(list) == SizeLimit # 0 /\ Cardinality(list) >= SizeLimit
UserFull(list) == UserLimit # 0 /\ Cardinality(UserAlarms(list)) >= UserLimit

\* Mutant: the id is taken from the length of the list.
NewIdFromLength(dat) == Cardinality(dat.list) + 1

\* ++next_id.
NewId(dat) == dat.next_id + 1

\* oh_add_alarm with fromfile = 0: a full table refuses the alarm and, when
\* it is the size limit, sets overflow; an added one is saved at once.
AddAlarm(dat, cond) ==
  LET list == dat.list \union
                {[id |-> NewId(dat), ack |-> FALSE, cond |-> cond]}
  IN  IF SizeFull(dat.list)
      THEN [dat EXCEPT !.overflow = TRUE]
      ELSE IF cond.type = "USER" /\ UserFull(dat.list)
      THEN dat
      ELSE UpdateDat([dat EXCEPT !.next_id = NewId(dat),
                                 !.list = list,
                                 !.file = IF DatSave THEN list ELSE @])

\* Mutant: multi = 0, only the first match goes.
RemoveFirstAlarm(dat, gone) ==
  LET list == dat.list \ {a \in gone : \A b \in gone : a.id <= b.id}
  IN  UpdateDat([dat EXCEPT !.list = list,
                            !.overflow = @ /\ ~(SizeLimit # 0 /\ ~SizeFull(list))])

\* oh_remove_alarm with multi = 1, gone being the alarms that match.  It
\* counts as an update even when nothing matches, resets overflow when there
\* is room again, and does not touch the file.
RemoveAlarms(dat, gone) ==
  LET list == dat.list \ gone
  IN  UpdateDat([dat EXCEPT !.list = list,
                            !.overflow = @ /\ ~(SizeLimit # 0 /\ ~SizeFull(list))])

\* The alarms of a type about a resource, and those about a sensor of it.
AlarmsOf(dat, type, rid) ==
  {a \in dat.list : a.cond.type = type /\ a.cond.rid = rid}
SensorAlarms(dat, rid, num) ==
  {a \in AlarmsOf(dat, "SENSOR", rid) : a.cond.num = num}

\* oh_alarms_from_file on a new table: alarms are added in file order with
\* fromfile = 1 and loading stops at the first one a limit refuses.
Before(file, a) == {b \in file : b.id < a.id}
Fits(file, a) ==
  /\ ~SizeFull(Before(file, a))
  /\ a.cond.type = "USER" => ~UserFull(Before(file, a))
Loaded(file) ==
  {a \in file : \A b \in file : b.id <= a.id => Fits(file, b)}

\* Mutant: ids resume from the number of alarms read.
LastIdFromLength(list) == Cardinality(list)

\* next_id after loading: the highest id read, by the fromfile branch of
\* oh_add_alarm.
LastId(list) ==
  IF list = {} THEN 0 ELSE (CHOOSE a \in list : \A b \in list : b.id <= a.id).id

LoadDat(file) ==
  LET list == Loaded(file)
  IN  [EmptyDat EXCEPT
         !.list = list,
         !.next_id = LastId(list),
         !.overflow = list # file /\ SizeFull(list),
         !.file = file]

----------------------------------------------------------------------------
(* What events do to the table: oh_detect_*. *)

Cond(type, sev, rid, num, state) ==
  [type |-> type, sev |-> sev, rid |-> rid, num |-> num, state |-> state]

\* oh_detect_oem_event_alarm.
DetectOem(dat, rid, mid, sev) ==
  IF Alarming(sev)
  THEN AddAlarm(dat, Cond("OEM", sev, rid, mid, None))
  ELSE RemoveAlarms(dat, {a \in AlarmsOf(dat, "OEM", rid) : a.cond.num = mid})

\* oh_detect_sensor_event_alarm.  current is CurrentState, or None when the
\* event does not carry it.
DetectSensor(dat, rid, num, state, sev, asserted, current) ==
  LET seen == IF current = None THEN dat
              ELSE RemoveAlarms(dat, {a \in SensorAlarms(dat, rid, num) :
                                        a.cond.state \notin current})
  IN  CASE ~asserted ->
             RemoveAlarms(seen, {a \in SensorAlarms(seen, rid, num) :
                                   a.cond.state = state})
        [] asserted /\ Alarming(sev) ->
             AddAlarm(seen, Cond("SENSOR", sev, rid, num, state))
        [] OTHER -> seen

\* oh_detect_sensor_enable_change_alarm, oh_detect_sensor_enable_alarm.
DetectEnable(dat, rid, num, enabled) ==
  IF enabled THEN dat ELSE RemoveAlarms(dat, SensorAlarms(dat, rid, num))

\* oh_detect_sensor_mask_alarm, for SAHPI_SENS_REMOVE_EVENTS_FROM_MASKS.
DetectMask(dat, rid, num, mask) ==
  RemoveAlarms(dat, {a \in SensorAlarms(dat, rid, num) : a.cond.state \in mask})

\* oh_detect_resource_alarm, for a resource entry.
DetectResource(dat, rid, failed, sev) ==
  IF failed /\ Alarming(sev)
  THEN AddAlarm(dat, Cond("RESOURCE", sev, rid, None, None))
  ELSE RemoveAlarms(dat, AlarmsOf(dat, "RESOURCE", rid))

\* oh_detect_resource_event_alarm, for a resource event without an entry:
\* a failure of a severity that is not alarming changes nothing.
DetectResourceEvent(dat, rid, failure, sev) ==
  CASE ~failure -> RemoveAlarms(dat, AlarmsOf(dat, "RESOURCE", rid))
    [] failure /\ Alarming(sev) ->
         AddAlarm(dat, Cond("RESOURCE", sev, rid, None, None))
    [] OTHER -> dat

\* oh_remove_resource_alarms; all = TRUE when the resource is gone.
RemoveResourceAlarms(dat, rid, all) ==
  LET one == RemoveAlarms(dat, AlarmsOf(dat, "RESOURCE", rid))
      two == RemoveAlarms(one, AlarmsOf(one, "OEM", rid))
  IN  IF all THEN RemoveAlarms(two, AlarmsOf(two, "SENSOR", rid)) ELSE one
=============================================================================
