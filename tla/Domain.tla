------------------------------- MODULE Domain -------------------------------
(***************************************************************************)
(* How resource and hot swap events change a domain: process_event of      *)
(* openhpid/event.c on the resource presence table (utils/rpt_utils.c) and *)
(* the alarm table (module Dat), with what runs next to it: handlers that  *)
(* post events to oh_process_q, saHpiResourceSeveritySet,                  *)
(* saHpiResourceFailedRemove and oHpiHandlerDestroy.                       *)
(*                                                                         *)
(* process_event holds the domain lock from end to end, so it is one       *)
(* action; posting takes only the lock of the queue.  The calls release    *)
(* the domain lock half way and are split there.                           *)
(***************************************************************************)
EXTENDS Dat, Sequences

CONSTANTS Handlers,   \* handler ids
          Owner,      \* which handler a resource belongs to
          Rdrs,       \* resource data records a resource may have
          MaxQueue,   \* bound: events are posted while oh_process_q is shorter
          MaxAlarmId  \* bound: no alarm gets a higher id

ASSUME OwnerAssumption ==
  IsFiniteSet(Resources) /\ Owner \in [Resources -> Handlers]
ASSUME QueueAssumption == MaxQueue \in Nat /\ MaxAlarmId \in Nat

VARIABLES
  frus,       \* resources with SAHPI_CAPABILITY_FRU, fixed by the hardware
  rpt,        \* the RPT: resource -> entry, or Absent
  dat,        \* the alarm table
  q,          \* oh_process_q
  cache,      \* the handlers' own view of their resources (rptcache)
  handlers,   \* live handlers
  client,     \* a client call that released the domain lock half way
  pubFailed,  \* history: resources that published events report as failed
  removed     \* history: resources a client removed behind the handler's back

vars == <<frus, rpt, dat, q, cache, handlers, client, pubFailed, removed>>

\* SaHpiRptEntryT, as far as the domain looks at it, with its RDRs.
Entries == [failed : BOOLEAN, sev : Severities, rdrs : SUBSET Rdrs]
Absent  == [absent |-> TRUE]
Present(r) == rpt[r] # Absent

\* struct oh_event for the two event types; INSERTED and HOTSWAP are hot swap
\* events that announce a FRU or a change of its state.  A bare event carries
\* no resource entry (ResourceCapabilities 0), only its Source.
Kinds == {"FAILURE", "INACCESSIBLE", "RESTORED", "ADDED", "UPDATED", "REMOVED",
          "INSERTED", "HOTSWAP", "NOT_PRESENT"}
QEvents == [kind : Kinds, rid : Resources, hid : Handlers, bare : BOOLEAN,
            failed : BOOLEAN, sev : Severities, rdrs : SUBSET Rdrs,
            gone : SUBSET Rdrs, changed : BOOLEAN]

NoCall == [op |-> "none"]

Init ==
  /\ frus \in SUBSET Resources
  /\ rpt = [r \in Resources |-> Absent]
  /\ dat = EmptyDat
  /\ q = <<>>
  /\ cache = [r \in Resources |-> Absent]
  /\ handlers = Handlers
  /\ client = NoCall
  /\ pubFailed = {}
  /\ removed = {}

----------------------------------------------------------------------------
(* Handlers.  A handler keeps its cache and posts an event per change. *)

Alive(r) == Owner[r] \in handlers /\ Len(q) < MaxQueue

Event(kind, r, entry) ==
  [kind |-> kind, rid |-> r, hid |-> Owner[r], bare |-> FALSE,
   failed |-> entry.failed, sev |-> entry.sev, rdrs |-> {}, gone |-> {},
   changed |-> TRUE]

Post(e) == q' = Append(q, e)

\* A resource is discovered: a FRU by a hot swap event, which may have equal
\* states, any other by RESOURCE_ADDED.
HandlerAdd(r, sev, rdrs, changed) ==
  /\ Alive(r)
  /\ cache[r] = Absent
  /\ LET entry == [failed |-> FALSE, sev |-> sev, rdrs |-> rdrs]
         kind  == IF r \in frus THEN "INSERTED" ELSE "ADDED"
     IN  /\ cache' = [cache EXCEPT ![r] = entry]
         /\ Post([Event(kind, r, entry) EXCEPT !.rdrs = rdrs, !.changed = changed])
  /\ UNCHANGED <<frus, rpt, dat, handlers, client, pubFailed, removed>>

\* It fails, possibly not for the first time, or comes back.
HandlerFail(r, kind, bare) ==
  /\ Alive(r)
  /\ cache[r] # Absent
  /\ kind \in {"FAILURE", "INACCESSIBLE", "RESTORED"}
  /\ kind # "RESTORED" => dat.next_id + Len(q) < MaxAlarmId
  /\ LET entry == [cache[r] EXCEPT !.failed = kind # "RESTORED"]
     IN  /\ cache' = [cache EXCEPT ![r] = entry]
         /\ Post([Event(kind, r, entry) EXCEPT !.bare = bare])
  /\ UNCHANGED <<frus, rpt, dat, handlers, client, pubFailed, removed>>

\* Its records change.
HandlerUpdate(r, rdrs) ==
  /\ Alive(r)
  /\ cache[r] # Absent
  /\ cache[r].failed => dat.next_id + Len(q) < MaxAlarmId
  /\ cache' = [cache EXCEPT ![r].rdrs = rdrs]
  /\ Post([Event("UPDATED", r, cache[r]) EXCEPT !.rdrs = rdrs,
                                                !.gone = cache[r].rdrs \ rdrs])
  /\ UNCHANGED <<frus, rpt, dat, handlers, client, pubFailed, removed>>

\* A FRU changes its hot swap state; no records come with that.
HandlerHotSwap(r) ==
  /\ Alive(r)
  /\ r \in frus
  /\ cache[r] # Absent
  /\ Post(Event("HOTSWAP", r, cache[r]))
  /\ UNCHANGED <<frus, rpt, dat, cache, handlers, client, pubFailed, removed>>

\* It is gone.
HandlerRemove(r) ==
  /\ Alive(r)
  /\ cache[r] # Absent
  /\ dat.next_id + Len(q) < MaxAlarmId
  /\ cache' = [cache EXCEPT ![r] = Absent]
  /\ Post(Event(IF r \in frus THEN "NOT_PRESENT" ELSE "REMOVED", r, cache[r]))
  /\ UNCHANGED <<frus, rpt, dat, handlers, client, pubFailed, removed>>

----------------------------------------------------------------------------
(* process_event. *)

\* The resource entry the event ends up with: a bare event is completed from
\* the RPT, which may not know the resource.
Completed(e) ==
  IF e.bare /\ Present(e.rid)
  THEN [e EXCEPT !.bare = FALSE, !.failed = rpt[e.rid].failed,
                 !.sev = rpt[e.rid].sev]
  ELSE e

\* "Invalid event": no entry, or an added FRU.  A hot swap event of a
\* resource that is no FRU is not posted by any handler here.
Dropped(e) == e.bare \/ (e.kind = "ADDED" /\ e.rid \in frus)

\* Mutant: the flag is left as the event carries it.
ResolveKeep(e) == e

\* The switch of process_resource_event: ResourceFailed is set by the first
\* failure and cleared by the first restoration after it; otherwise the
\* entry keeps the flag the event came with.
Failing(r) == Present(r) /\ rpt[r].failed
Resolve(e) ==
  [e EXCEPT !.failed =
     CASE e.kind \in {"FAILURE", "INACCESSIBLE"} /\ ~Failing(e.rid) -> TRUE
       [] e.kind = "RESTORED" /\ Failing(e.rid) -> FALSE
       [] OTHER -> @]

\* Mutant: a restoration is published when the resource was not failed.
PublishedSwapped(e) ==
  CASE e.kind \in {"FAILURE", "INACCESSIBLE", "RESTORED"} -> ~Failing(e.rid)
    [] e.kind = "REMOVED" -> Present(e.rid)
    [] e.kind \in {"ADDED", "UPDATED"} -> TRUE
    [] e.kind \in {"INSERTED", "HOTSWAP", "NOT_PRESENT"} -> e.changed

\* Is it passed on to process_hpi_event?
Published(e) ==
  CASE e.kind \in {"FAILURE", "INACCESSIBLE"} -> ~Failing(e.rid)
    [] e.kind = "RESTORED" -> Failing(e.rid)
    [] e.kind = "REMOVED" -> Present(e.rid)
    [] e.kind \in {"ADDED", "UPDATED"} -> TRUE
    [] e.kind \in {"INSERTED", "HOTSWAP", "NOT_PRESENT"} -> e.changed

\* The RDR loops: ADDED and UPDATED remove and add records, a hot swap event
\* adds them to a new entry only.
Records(e, old) ==
  CASE e.kind \in {"ADDED", "UPDATED"} -> (old \ e.gone) \union e.rdrs
    [] e.kind = "INSERTED" /\ ~Present(e.rid) -> old \union e.rdrs
    [] OTHER -> old

\* oh_add_resource overlays the entry and keeps the records; oh_remove_resource
\* drops both.
NewEntry(e) ==
  IF e.kind \in {"REMOVED", "NOT_PRESENT"}
  THEN Absent
  ELSE [failed |-> e.failed, sev |-> e.sev,
        rdrs |-> Records(e, IF Present(e.rid) THEN rpt[e.rid].rdrs ELSE {})]

\* Mutant: a restoration clears no alarm.
DetectEventKeep(e) ==
  CASE e.kind \in {"INSERTED", "HOTSWAP", "RESTORED"} -> dat
    [] e.kind = "NOT_PRESENT" -> RemoveResourceAlarms(dat, e.rid, TRUE)
    [] e.bare -> DetectResourceEvent(dat, e.rid, e.kind = "FAILURE", e.sev)
    [] OTHER -> DetectResource(dat, e.rid, e.failed, e.sev)

\* oh_detect_event_alarm.  A bare event has no ResourceId: it is judged by
\* its kind instead of its entry.
DetectEvent(e) ==
  CASE e.kind \in {"INSERTED", "HOTSWAP"} -> dat
    [] e.kind = "NOT_PRESENT" -> RemoveResourceAlarms(dat, e.rid, TRUE)
    [] e.bare -> DetectResourceEvent(dat, e.rid, e.kind = "FAILURE", e.sev)
    [] OTHER -> DetectResource(dat, e.rid, e.failed, e.sev)

\* What a subscriber makes of a published event: the event kind and the entry
\* that comes with it tell whether the resource is failed.
Learn(e) ==
  IF e.failed /\ e.kind \notin {"REMOVED", "NOT_PRESENT"}
  THEN pubFailed \union {e.rid}
  ELSE pubFailed \ {e.rid}

\* A removal of r waits behind the head of the queue.
Leaving(r) == \E i \in 2 .. Len(q) : q[i].kind = "NOT_PRESENT" /\ q[i].rid = r

ProcessEvent ==
  /\ q # <<>>
  /\ q' = Tail(q)
  /\ LET e == Completed(Head(q))
         f == Resolve(e)
     IN  IF Dropped(e)
         THEN /\ dat' = DetectEvent(e)
              /\ UNCHANGED <<rpt, pubFailed, removed>>
         ELSE /\ rpt' = [rpt EXCEPT ![e.rid] = NewEntry(f)]
              /\ dat' = DetectEvent(f)
              /\ pubFailed' = IF Published(e) THEN Learn(f) ELSE pubFailed
              /\ removed' = IF e.kind = "INSERTED" /\ ~Present(e.rid) /\ ~Leaving(e.rid)
                            THEN removed \ {e.rid} ELSE removed
  /\ UNCHANGED <<frus, cache, handlers, client>>

----------------------------------------------------------------------------
(* Client calls. *)

\* saHpiResourceSeveritySet up to the handler's set_resource_severity.
SeveritySet(r, sev) ==
  /\ client = NoCall
  /\ Present(r)
  /\ Owner[r] \in handlers
  /\ cache[r] # Absent
  /\ cache' = [cache EXCEPT ![r].sev = sev]
  /\ client' = [op |-> "alarm", rid |-> r, sev |-> sev]
  /\ UNCHANGED <<frus, rpt, dat, q, handlers, pubFailed, removed>>

\* oh_detect_res_sev_alarm, with a domain lock of its own.
SeverityAlarm ==
  /\ client.op = "alarm"
  /\ dat' = IF /\ Present(client.rid)
               /\ Alarming(rpt[client.rid].sev)
               /\ ~Alarming(client.sev)
            THEN RemoveResourceAlarms(dat, client.rid, FALSE)
            ELSE dat
  /\ client' = [client EXCEPT !.op = "entry"]
  /\ UNCHANGED <<frus, rpt, q, cache, handlers, pubFailed, removed>>

\* "to get rpt entry into infrastructure", with a third lock of the domain.
SeverityEntry ==
  /\ client.op = "entry"
  /\ rpt' = IF Present(client.rid)
            THEN [rpt EXCEPT ![client.rid].sev = client.sev]
            ELSE rpt
  /\ client' = NoCall
  /\ UNCHANGED <<frus, dat, q, cache, handlers, pubFailed, removed>>

\* saHpiResourceFailedRemove for a handler without that function: the entry
\* is saved under the lock ...
FailedRemove(r) ==
  /\ client = NoCall
  /\ r \in frus
  /\ Failing(r)
  /\ Owner[r] \in handlers
  /\ client' = [op |-> "remove", rid |-> r, entry |-> rpt[r]]
  /\ UNCHANGED <<frus, rpt, dat, q, cache, handlers, pubFailed, removed>>

\* ... and the removal is posted after it is released.
FailedRemovePost ==
  /\ client.op = "remove"
  /\ Len(q) < MaxQueue
  /\ Post(Event("NOT_PRESENT", client.rid, client.entry))
  /\ removed' = removed \union {client.rid}
  /\ client' = NoCall
  /\ UNCHANGED <<frus, rpt, dat, cache, handlers, pubFailed>>

\* ... unless get_hotswap_state of a managed FRU fails.
FailedRemoveError ==
  /\ client.op = "remove"
  /\ client' = NoCall
  /\ UNCHANGED <<frus, rpt, dat, q, cache, handlers, pubFailed, removed>>

\* oHpiHandlerDestroy: the handler is closed and a removal is posted for each
\* of its resources in the RPT, all with the domain locked.
HandlerDestroy(h) ==
  /\ h \in handlers
  /\ dat.next_id + Len(q) + Cardinality(Resources) <= MaxAlarmId
  /\ handlers' = handlers \ {h}
  /\ LET mine == {r \in Resources : Present(r) /\ Owner[r] = h}
     IN  \E order \in [1 .. Cardinality(mine) -> mine] :
           /\ \A i, j \in DOMAIN order : i # j => order[i] # order[j]
           /\ q' = q \o [i \in DOMAIN order |-> Event("REMOVED", order[i], rpt[order[i]])]
  /\ cache' = [r \in Resources |-> IF Owner[r] = h THEN Absent ELSE cache[r]]
  /\ UNCHANGED <<frus, rpt, dat, client, pubFailed, removed>>

----------------------------------------------------------------------------
Handler ==
  \E r \in Resources :
    \/ \E sev \in Severities, rdrs \in SUBSET Rdrs, changed \in BOOLEAN :
         HandlerAdd(r, sev, rdrs, changed)
    \/ \E kind \in Kinds, bare \in BOOLEAN : HandlerFail(r, kind, bare)
    \/ \E rdrs \in SUBSET Rdrs : HandlerUpdate(r, rdrs)
    \/ HandlerHotSwap(r)
    \/ HandlerRemove(r)

Client ==
  \/ \E r \in Resources, sev \in Severities : SeveritySet(r, sev)
  \/ \E r \in Resources : FailedRemove(r)
  \/ \E h \in Handlers : HandlerDestroy(h)
  \/ SeverityAlarm \/ SeverityEntry \/ FailedRemovePost \/ FailedRemoveError

Next == Handler \/ ProcessEvent \/ Client
Spec == Init /\ [][Next]_vars

----------------------------------------------------------------------------
(* Properties. *)

\* Every variable stays in its type.
TypeOK ==
  /\ frus \subseteq Resources
  /\ rpt \in [Resources -> Entries \union {Absent}]
  /\ cache \in [Resources -> Entries \union {Absent}]
  /\ dat \in [next_id : Nat, list : SUBSET Alarms, update_count : 0 .. CountMod - 1,
              overflow : BOOLEAN, file : SUBSET Alarms]
  /\ q \in Seq(QEvents)
  /\ handlers \subseteq Handlers
  /\ client \in {NoCall}
       \union [op : {"alarm", "entry"}, rid : Resources, sev : Severities]
       \union [op : {"remove"}, rid : Resources, entry : Entries]
  /\ pubFailed \subseteq Resources
  /\ removed \subseteq Resources

Quiet == q = <<>> /\ client = NoCall

\* When everything posted is processed, the RPT agrees with the handlers about
\* which resources are there, which of them are failed and what records they
\* have, except for those a client removed itself.
RptAgrees ==
  Quiet => \A r \in Resources : Owner[r] \in handlers /\ r \notin removed =>
    /\ Present(r) <=> cache[r] # Absent
    /\ Present(r) => /\ rpt[r].failed = cache[r].failed
                     /\ rpt[r].rdrs = cache[r].rdrs

\* A subscriber who only looks at published events knows which resources of
\* the RPT are failed: suppressing the repeated ones loses nothing.
FailuresPublished ==
  \A r \in Resources : Present(r) => (rpt[r].failed <=> r \in pubFailed)

\* A resource that is no FRU and is not failed has no resource alarm.
HealthyNotAlarmed ==
  \A r \in Resources \ frus :
    Present(r) /\ ~rpt[r].failed => AlarmsOf(dat, "RESOURCE", r) = {}

\* "Remove all handler remaing resources from the Domain RPT"
\* (oHpiHandlerDestroy): once its removals are processed, the RPT holds no
\* resource of a destroyed handler.
NoOrphans ==
  Quiet => \A r \in Resources : Present(r) => Owner[r] \in handlers
=============================================================================
