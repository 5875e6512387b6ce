------------------------------ MODULE MCRecords ------------------------------
(***************************************************************************)
(* The tenant tables whose requests share no row: customers,               *)
(* conversations, schedule tables and list walks are explored side by side, *)
(* one component at a time, the others resting in their initial state.     *)
(***************************************************************************)
EXTENDS Customers, Conversations, Schedule, Pagination, TLC

CONSTANTS s1, v1, v2, d1, d2   \* a staff, two services, two dates

\* Two spellings of one phone, another phone and an impossible one.
MCSpelling == {"55 1234", "+52551234", "9", "?"}
MCE164 == [s \in MCSpelling |-> CASE s = "?" -> None [] s = "9" -> "+529" [] OTHER -> "+52551234"]
MCCustOps ==
       [kind: {"create", "findOrCreate"}, phone: {"55 1234", "9"}]
  \cup [kind: {"update"}, id: Cust, name: {TRUE}, phone: {None}]
  \cup [kind: {"update"}, id: Cust, name: {FALSE}, phone: {"+52551234", "?"}]
  \cup [kind: {"remove", "purge"}, id: Cust]

\* One room, started repeatedly; appends and closes go to one conversation.
FirstConv == CHOOSE c \in Conv : TRUE
MCConvOps ==
       [kind: {"start"}, room: Room \cup {None}]
  \cup [kind: {"append"}, id: {FirstConv}, turn: Turn]
  \cup [kind: {"close"}, id: {FirstConv}, reason: Reason, beforeStart: BOOLEAN]

Open(a, b) == [day |-> "MONDAY", start |-> a, end |-> b, isOpen |-> TRUE]
Closed == [day |-> "MONDAY", start |-> 0, end |-> 0, isOpen |-> FALSE]
Op(kind, table, scope, items, id) ==
  [kind |-> kind, table |-> table, scope |-> scope, items |-> items, id |-> id]
MCFirstRows ==
  {[table |-> t[1], scope |-> t[2], id |-> <<None, t[3]>>, key |-> t[3]] :
     t \in {<<"businessHour", None, Open(1, 3)>>, <<"holiday", None, d1>>,
            <<"staffService", s1, v1>>}}
MCSchedOps ==
  {Op("replace", "businessHour", None, <<Open(1, 2), Open(2, 4)>>, None),
   Op("replace", "businessHour", None, <<Open(1, 3), Open(4, 5), Open(2, 4)>>, None),
   Op("replace", "businessHour", None, <<Closed>>, None),
   Op("replace", "staffService", s1, <<v1, v2>>, None),
   Op("insert", "staffService", s1, <<v2>>, None),
   Op("remove", "staffService", s1, <<v1>>, None),
   Op("replace", "staffAvailability", s1, <<Open(1, 3)>>, None),
   Op("insert", "blockedTime", s1, <<[start |-> 1, end |-> 3]>>, None),
   Op("bulk", "holiday", None, <<d1, d2>>, None),
   Op("insert", "holiday", None, <<d2>>, None),
   Op("rekey", "holiday", None, <<d2>>, <<None, d1>>),
   Op("remove", "holiday", None, <<>>, <<None, d1>>)}

MCInit == CustInit /\ ConvInit /\ SchedInit /\ ListInit
MCNext ==
  \/ ListInit /\ SchedInit /\ ConvInit /\ CustNext /\ UNCHANGED <<convVars, schedVars, listVars>>
  \/ ListInit /\ SchedInit /\ CustInit /\ ConvNext /\ UNCHANGED <<custVars, schedVars, listVars>>
  \/ ListInit /\ ConvInit /\ CustInit /\ SchedNext /\ UNCHANGED <<custVars, convVars, listVars>>
  \/ SchedInit /\ ConvInit /\ CustInit /\ ListNext /\ UNCHANGED <<custVars, convVars, schedVars>>
MCSpec == MCInit /\ [][MCNext]_<<custVars, convVars, schedVars, listVars>>

Symmetry == Permutations(Req) \cup Permutations(Edit)

=============================================================================
