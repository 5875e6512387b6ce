---------------------------- MODULE Conversations ----------------------------
(***************************************************************************)
(* ConversationsService: conversations the agents start by LiveKit room,   *)
(* the turns they append and the close that freezes the rollups, under     *)
(* concurrent and repeated calls.                                          *)
(***************************************************************************)
EXTENDS RequestSlots, Naturals, FiniteSets

CONSTANTS
  Conv,       \* conversation ids; bounds the number of INSERTs
  Room,       \* LiveKit room names
  Turn,       \* values of turnIndex
  Reason,     \* values of endedReason (with the rollups sent beside it)
  ConvOps     \* the operations agents send

ConvRow == [room: Room \cup {None}, ended: Reason \cup {None}, count: Nat]
Message == [late: BOOLEAN]

StartConversationDto == [kind: {"start"}, room: Room \cup {None}]
AppendMessageDto     == [kind: {"append"}, id: Conv, turn: Turn]
CloseConversationDto == [kind: {"close"}, id: Conv, reason: Reason, beforeStart: BOOLEAN]
ConvOp == StartConversationDto \cup AppendMessageDto \cup CloseConversationDto

ASSUME ConversationsAssumption ==
  /\ ConvOps \subseteq ConvOp
  /\ None \notin ConvRow \cup Message \cup Conv \cup Room \cup Reason \cup ConvOps

VARIABLES
  conv,         \* committed Conversation rows
  message,      \* committed Message rows, by conversation and turn
  roomAnswers,  \* what start answered: pairs of room and conversation
  convOp, convPc,
  convRead,     \* the conversation a request read first
  convTx,       \* its uncommitted Conversation row versions
  messageTx     \* its uncommitted Message rows

convTables == <<conv, message, roomAnswers>>
convVars == <<convTables, convOp, convPc, convRead, convTx, messageTx>>

NoConvs == [c \in Conv |-> None]
NoMessages == [k \in Conv \X Turn |-> None]

ConvInit ==
  /\ conv = NoConvs
  /\ message = NoMessages
  /\ roomAnswers = {}
  /\ convOp = [r \in Req |-> None]
  /\ convPc = [r \in Req |-> "idle"]
  /\ convRead = [r \in Req |-> None]
  /\ convTx = [r \in Req |-> NoConvs]
  /\ messageTx = [r \in Req |-> NoMessages]

-----------------------------------------------------------------------------
ConvView(r, c) == IF convTx[r][c] # None THEN convTx[r][c] ELSE conv[c]
ConvLocked(r, c) == \E q \in Req \ {r} : convTx[q][c] # None

ConvAt(r, s) == convPc[r] = s
ConvGoto(r, s) == convPc' = [convPc EXCEPT ![r] = s]

ConvReset(r) ==
  /\ convOp' = [convOp EXCEPT ![r] = None]
  /\ convPc' = [convPc EXCEPT ![r] = "idle"]
  /\ convRead' = [convRead EXCEPT ![r] = None]
  /\ convTx' = [convTx EXCEPT ![r] = NoConvs]
  /\ messageTx' = [messageTx EXCEPT ![r] = NoMessages]

ConvFail(r) == ConvReset(r) /\ UNCHANGED convTables

ConvBegin(r) ==
  /\ convOp[r] = None
  /\ \E o \in ConvOps :
       /\ convOp' = [convOp EXCEPT ![r] = o]
       /\ ConvGoto(r, CASE o.kind = "start" /\ o.room # None -> "findRoom"
                        [] o.kind = "start" /\ o.room = None -> "insertConv"
                        [] OTHER                             -> "findConv")
  /\ UNCHANGED <<convTables, convRead, convTx, messageTx>>

ConvCommit(r) ==
  /\ ConvAt(r, "commit")
  /\ conv' = [c \in Conv |-> ConvView(r, c)]
  /\ message' = [k \in Conv \X Turn |->
                   IF messageTx[r][k] # None THEN messageTx[r][k] ELSE message[k]]
  /\ roomAnswers' = roomAnswers \cup
       {<<convOp[r].room, c>> :
          c \in {d \in Conv : /\ convOp[r].kind = "start" /\ convOp[r].room # None
                              /\ ConvView(r, d) # None
                              /\ ConvView(r, d).room = convOp[r].room}}
  /\ ConvReset(r)

\* Timeout, lost connection or crash.
ConvTxLost(r) == convOp[r] # None /\ ConvFail(r)

-----------------------------------------------------------------------------
\* start: an existing row of the room is returned, otherwise one is created.

InRoom(row, room) == room # None /\ row # None /\ row.room = room

FindRoom(r) ==
  /\ ConvAt(r, "findRoom")
  /\ ConvGoto(r, IF \E c \in Conv : InRoom(conv[c], convOp[r].room)
                 THEN "commit" ELSE "insertConv")
  /\ UNCHANGED <<convTables, convOp, convRead, convTx, messageTx>>

\* Mutated form of RoomWaits: livekitRoomName has a plain index.
RoomNeverWaits(r) == FALSE

\* The unique index on livekitRoomName meets an uncommitted entry.
RoomWaits(r) ==
  \E c \in Conv, q \in Req \ {r} : InRoom(convTx[q][c], convOp[r].room)
RoomTaken(r) == \E c \in Conv : InRoom(conv[c], convOp[r].room)

StartConv(r) ==
  /\ ConvAt(r, "insertConv")
  /\ ~RoomWaits(r) /\ ~RoomTaken(r)
  /\ LET free == {c \in Conv : conv[c] = None /\ ~ConvLocked(r, c)} IN
       /\ free # {}
       /\ convTx' = [convTx EXCEPT ![r][CHOOSE c \in free : TRUE] =
                       [room |-> convOp[r].room, ended |-> None, count |-> 0]]
  /\ ConvGoto(r, "commit")
  /\ UNCHANGED <<convTables, convOp, convRead, messageTx>>

\* Lost race: the unique violation is not caught.
StartConvTaken(r) ==
  /\ ConvAt(r, "insertConv")
  /\ ~RoomWaits(r) /\ RoomTaken(r)
  /\ ConvFail(r)

-----------------------------------------------------------------------------
\* appendMessage and close read the conversation first.

\* Mutated form of AfterFindConv: close does not look at endedAt.
AfterFindConvAlways(o, row) ==
  CASE o.kind = "append" -> "findTurn"
    [] OTHER             -> "updateConv"

\* close returns a closed conversation as it is.
AfterFindConv(o, row) ==
  CASE o.kind = "append"                      -> "findTurn"
    [] o.kind = "close" /\ row.ended # None   -> "commit"
    [] OTHER                                  -> "updateConv"

\* close throws when endedAt precedes startedAt.
ConvAccepts(o, row) ==
  /\ row # None
  /\ o.kind = "close" /\ row.ended = None => ~o.beforeStart

FindConv(r) ==
  /\ ConvAt(r, "findConv")
  /\ LET row == conv[convOp[r].id] IN
       \/ /\ ConvAccepts(convOp[r], row)
          /\ convRead' = [convRead EXCEPT ![r] = row]
          /\ ConvGoto(r, AfterFindConv(convOp[r], row))
          /\ UNCHANGED <<convTables, convOp, convTx, messageTx>>
       \/ ~ConvAccepts(convOp[r], row) /\ ConvFail(r)

Slot(r) == <<convOp[r].id, convOp[r].turn>>

\* A turn that is already there is answered as a duplicate.
FindTurn(r) ==
  /\ ConvAt(r, "findTurn")
  /\ ConvGoto(r, IF message[Slot(r)] # None THEN "commit" ELSE "insertMessage")
  /\ UNCHANGED <<convTables, convOp, convRead, convTx, messageTx>>

TurnWaits(r) == \E q \in Req \ {r} : messageTx[q][Slot(r)] # None

\* lateArrival comes from the conversation as it was read.
InsertMessage(r) ==
  /\ ConvAt(r, "insertMessage")
  /\ ~TurnWaits(r) /\ message[Slot(r)] = None
  /\ messageTx' = [messageTx EXCEPT ![r][Slot(r)] = [late |-> convRead[r].ended # None]]
  /\ ConvGoto(r, "updateConv")
  /\ UNCHANGED <<convTables, convOp, convRead, convTx>>

\* The same turn was committed since findTurn: unique violation, not caught.
InsertMessageTaken(r) ==
  /\ ConvAt(r, "insertMessage")
  /\ ~TurnWaits(r) /\ message[Slot(r)] # None
  /\ ConvFail(r)

\* Mutated form of ConvPatched: the row read earlier is written back.
ConvPatchedStale(r, row) ==
  IF convOp[r].kind = "append"
  THEN [convRead[r] EXCEPT !.count = row.count + 1]
  ELSE [row EXCEPT !.ended = convOp[r].reason]

\* messageCount: { increment: 1 }, or endedReason with the rollups.
ConvPatched(r, row) ==
  IF convOp[r].kind = "append"
  THEN [row EXCEPT !.count = @ + 1]
  ELSE [row EXCEPT !.ended = convOp[r].reason]

\* UPDATE by id of the latest version, under its row lock.
UpdateConv(r) ==
  /\ ConvAt(r, "updateConv")
  /\ ~ConvLocked(r, convOp[r].id)
  /\ convTx' = [convTx EXCEPT ![r][convOp[r].id] = ConvPatched(r, conv[convOp[r].id])]
  /\ ConvGoto(r, "commit")
  /\ UNCHANGED <<convTables, convOp, convRead, messageTx>>

ConvNext ==
  \E r \in Req :
    \/ ConvBegin(r) \/ FindRoom(r) \/ StartConv(r) \/ StartConvTaken(r)
    \/ FindConv(r) \/ FindTurn(r) \/ InsertMessage(r) \/ InsertMessageTaken(r)
    \/ UpdateConv(r) \/ ConvCommit(r) \/ ConvTxLost(r)

ConvSpec == ConvInit /\ [][ConvNext]_convVars

-----------------------------------------------------------------------------
\* Properties.

\* messageCount is the number of stored turns, and a turn flagged lateArrival
\* belongs to a closed conversation, whatever appends, retries of the same turn,
\* closes and lost transactions interleave.
TurnsAreTrue ==
  \A c \in Conv :
    conv[c] # None =>
      /\ conv[c].count = Cardinality({t \in Turn : message[<<c, t>>] # None})
      /\ \A t \in Turn : message[<<c, t>>] # None /\ message[<<c, t>>].late
                        => conv[c].ended # None

\* However often and concurrently an agent entrypoint starts a room, every
\* start that succeeds answers with the same conversation.
RoomAnswersAgree ==
  \A x, y \in roomAnswers : x[1] = y[1] => x[2] = y[2]

\* The first close wins against every close that reads after it: the reason and
\* rollups of a closed conversation change only through a close that had read
\* it open, and it is never reopened.
ClosedOnlyRaces ==
  [][\A c \in Conv :
       conv[c] # None /\ conv[c].ended # None /\ conv'[c].ended # conv[c].ended
         => \E r \in Req : /\ ConvAt(r, "commit") /\ convOp[r].kind = "close"
                           /\ convOp[r].id = c /\ convRead[r].ended = None]_convVars

-----------------------------------------------------------------------------
\* The inductive invariant behind the properties.

ConvTypeOK ==
  /\ conv \in [Conv -> ConvRow \cup {None}]
  /\ message \in [Conv \X Turn -> Message \cup {None}]
  /\ roomAnswers \subseteq Room \X Conv
  /\ convOp \in [Req -> ConvOps \cup {None}]
  /\ convPc \in [Req -> {"idle", "findRoom", "insertConv", "findConv", "findTurn",
                         "insertMessage", "updateConv", "commit"}]
  /\ convRead \in [Req -> ConvRow \cup {None}]
  /\ convTx \in [Req -> [Conv -> ConvRow \cup {None}]]
  /\ messageTx \in [Req -> [Conv \X Turn -> Message \cup {None}]]

\* The statements of an operation.
ConvPcs(kind) ==
  CASE kind = "start"  -> {"findRoom", "insertConv", "commit"}
    [] kind = "append" -> {"findConv", "findTurn", "insertMessage", "updateConv", "commit"}
    [] kind = "close"  -> {"findConv", "updateConv", "commit"}

\* What append and close read first: a conversation that exists, and that is
\* still closed when it was closed then.
ConvReadOK(r) ==
  convOp[r] # None /\ convOp[r].kind # "start" /\ convPc[r] # "findConv" =>
    /\ conv[convOp[r].id] # None /\ convRead[r] # None
    /\ convRead[r].ended # None => conv[convOp[r].id].ended # None
    /\ convOp[r].kind = "close"
         /\ (convPc[r] = "updateConv" \/ convTx[r][convOp[r].id] # None)
         => convRead[r].ended = None

\* The uncommitted conversation: a new one, or one UPDATE of the committed version.
ConvTxOK(r) ==
  \A c \in Conv : convTx[r][c] # None =>
    /\ convPc[r] = "commit"
    /\ IF convOp[r].kind = "start"
       THEN /\ conv[c] = None
            /\ convTx[r][c] = [room |-> convOp[r].room, ended |-> None, count |-> 0]
       ELSE c = convOp[r].id /\ convTx[r][c] = ConvPatched(r, conv[c])

\* The uncommitted turn, which is counted in the same transaction.
MessageTxOK(r) ==
  /\ \A k \in Conv \X Turn : messageTx[r][k] # None =>
       /\ convPc[r] \in {"updateConv", "commit"}
       /\ convOp[r].kind = "append" /\ k = Slot(r) /\ message[k] = None
       /\ messageTx[r][k].late => convRead[r].ended # None
       /\ convPc[r] = "commit" => convTx[r][convOp[r].id] # None
  /\ convOp[r] # None /\ convOp[r].kind = "append"
       /\ (convPc[r] = "updateConv" \/ convTx[r][convOp[r].id] # None)
       => messageTx[r][Slot(r)] # None

ConvRequestOK(r) ==
  /\ convOp[r] = None => convPc[r] = "idle"
  /\ convOp[r] # None => convPc[r] \in ConvPcs(convOp[r].kind)
  /\ ConvReadOK(r) /\ ConvTxOK(r) /\ MessageTxOK(r)

\* No row has two uncommitted versions.
ConvLocksOK ==
  \A r, q \in Req : r # q =>
    /\ \A c \in Conv : convTx[r][c] = None \/ convTx[q][c] = None
    /\ \A k \in Conv \X Turn : messageTx[r][k] = None \/ messageTx[q][k] = None

\* Versions of two conversations, committed or not, never share a room.
DifferentRooms(a, b) ==
  a # None /\ b # None /\ a.room # None => a.room # b.room
RoomIndexOK ==
  \A c, d \in Conv : c # d =>
    /\ DifferentRooms(conv[c], conv[d])
    /\ \A r \in Req : DifferentRooms(convTx[r][c], conv[d])
    /\ \A r, q \in Req : DifferentRooms(convTx[r][c], convTx[q][d])

\* Turns belong to a conversation, answers name the conversation of the room.
StoredTurns(c) == {t \in Turn : message[<<c, t>>] # None}
TurnsOK(c) ==
  /\ IsFiniteSet(StoredTurns(c))
  /\ conv[c] = None => StoredTurns(c) = {}
AnswersOK ==
  \A x \in roomAnswers : conv[x[2]] # None /\ conv[x[2]].room = x[1]

ConvInv ==
  /\ ConvTypeOK
  /\ \A r \in Req : ConvRequestOK(r)
  /\ ConvLocksOK /\ RoomIndexOK
  /\ TurnsAreTrue /\ \A c \in Conv : TurnsOK(c)
  /\ AnswersOK
=============================================================================
