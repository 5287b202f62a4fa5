------------------------- MODULE DocumentTabsProofs -------------------------
(***************************************************************************)
(* A tab on a document store, for any collections, keys, values and number *)
(* of requests that are out: the session is accounted for, no button is    *)
(* disabled for good, an edit goes where its text came from, and nothing   *)
(* is lost that the user did not delete.                                   *)
(***************************************************************************)
EXTENDS DocumentTabs, TLAPS, SequenceTheorems, FiniteSetTheorems

-----------------------------------------------------------------------------
(***************************************************************************)
(* Requests.  What a step of one request does to it, and that the others   *)
(* are left alone.                                                         *)
(***************************************************************************)
Shape ==
    /\ DOMAIN op = Calls /\ DOMAIN pc = Calls /\ DOMAIN arg = Calls /\ DOMAIN ans = Calls
    /\ vague \in BOOLEAN

\* Call c may change; the others do not.
Only(c) == \A d \in Calls \ {c} : UNCHANGED <<op[d], pc[d], arg[d], ans[d]>>

LEMMA SendFacts ==
  ASSUME Shape, NEW c \in Calls, NEW o, NEW a, NEW b \in BOOLEAN, Send(c, o, a, b)
  PROVE  /\ Shape' /\ Only(c)
         /\ pc[c] = "idle" /\ pc'[c] = "sent" /\ op'[c] = o /\ arg'[c] = a
         /\ ~vague' => ~vague /\ Out = {} /\ ~b
  BY DEF Shape, Send, Only

LEMMA ServeFacts ==
  ASSUME Shape, NEW c \in Calls, NEW o, NEW from, NEW r, Serve(c, o, from, r)
  PROVE  /\ Shape' /\ Only(c) /\ UNCHANGED <<op, arg, vague>>
         /\ op[c] = o /\ pc[c] = from /\ pc'[c] = "served" /\ ans'[c] = r
  BY DEF Shape, Serve, Only

LEMMA AnsweredFacts ==
  ASSUME Shape, NEW c \in Calls, NEW o, Answered(c, o)
  PROVE  /\ Shape' /\ Only(c) /\ UNCHANGED vague
         /\ op[c] = o /\ pc[c] = "served" /\ pc'[c] = "idle"
  BY DEF Shape, Answered, Return, Only

LEMMA FailedFacts ==
  ASSUME Shape, NEW c \in Calls, NEW o, Failed(c, o)
  PROVE  /\ Shape' /\ Only(c)
         /\ op[c] = o /\ pc[c] # "idle" /\ pc'[c] = "idle"
         /\ ~vague' => ~vague /\ pc[c] # "served"
  BY DEF Shape, Failed, Return, Only

\* A request that is begun or goes on stays pending, and so do the others.
LEMMA StaysPending ==
  ASSUME NEW c \in Calls, Only(c),
         pc[c] = "idle" \/ (pc'[c] # "idle" /\ op'[c] = op[c])
  PROVE  \A o : Pending(o) \subseteq Pending(o)'
  BY DEF Only, Pending, Out

\* One that ends leaves those of other handlers pending.
LEMMA OthersPending ==
  ASSUME NEW c \in Calls, Only(c)
  PROVE  \A o : o # op[c] => Pending(o) \subseteq Pending(o)'
  BY DEF Only, Pending, Out

-----------------------------------------------------------------------------
(***************************************************************************)
(* The view of a MongoDB tab.                                              *)
(***************************************************************************)
MongoRequest(c) ==
    \/ pc[c] = "idle"
    \/ /\ pc[c] \in {"sent", "served"}
       /\ arg[c].coll \in Colls
       /\ \/ op[c] = "find" /\ arg[c].filter \in Filters /\ arg[c].page \in Nat
          \/ op[c] \in {"update", "deleteDocument"} /\ arg[c].id \in Ids
          \/ op[c] = "insert"
       /\ pc[c] = "served" /\ op[c] \in {"find", "insert"} => ans[c] \subseteq Ids

\* One request at a time is out, and it is about the selected collection; a
\* page that has come shows documents of that collection, the editor too.
OneMongoRequest ==
    /\ \A c, d \in Out : c = d
    /\ \A c \in Out :
          /\ arg[c].coll = coll
          /\ pc[c] = "served" /\ op[c] \in {"find", "insert"} => ans[c] \subseteq store[coll]

\* The document that a deletion under way has just taken out of the store.
BeingDeleted(i) ==
    \E c \in Out : pc[c] = "served" /\ op[c] = "deleteDocument" /\ arg[c].id = i

ShowsCollection ==
    /\ \A d \in docs : d.from = coll /\ (d.id \in store[coll] \/ BeingDeleted(d.id))
    /\ editing # None /\ coll # None => editing.from = coll

MongoInv ==
    /\ Shape
    /\ MongoTypeOK
    /\ MongoFlagsAccountedFor
    /\ \A c \in Calls : MongoRequest(c)
    /\ WritesHitShownDocument
    /\ ~vague => OneMongoRequest /\ (Calm => ShowsCollection)

-----------------------------------------------------------------------------
(* The user's clicks that ask for nothing. *)

LEMMA MongoClick ==
  ASSUME MongoInv,
         SelectDatabase \/ StartCreate \/ CancelEditor \/ \E d \in docs : StartEdit(d)
  PROVE  MongoInv'
<1> USE DEF MongoInv, pageVars, editVars, requestVars
<1>1. UNCHANGED <<op, pc, arg, ans, store, loading, error>> /\ vague' \in BOOLEAN
  BY DEF SelectDatabase, StartCreate, CancelEditor, StartEdit, Shape
<1>2. Shape' /\ (\A c \in Calls : MongoRequest(c)')
  BY <1>1 DEF Shape, MongoRequest
<1>3. MongoTypeOK'
  BY MongoAssumption
     DEF MongoTypeOK, SelectDatabase, StartCreate, CancelEditor, StartEdit, Everything, Ids
<1>4. MongoFlagsAccountedFor'
  BY <1>1 DEF MongoFlagsAccountedFor, Pending, Out, SelectDatabase, StartCreate, CancelEditor, StartEdit
<1>5. vague => vague'
  BY DEF SelectDatabase, StartCreate, CancelEditor, StartEdit
<1>6. WritesHitShownDocument'
  BY <1>1, <1>5 DEF WritesHitShownDocument, Pending, Out
<1>7. ASSUME ~vague'
      PROVE  OneMongoRequest' /\ (Calm' => ShowsCollection')
  <2>1. OneMongoRequest /\ (Calm => ShowsCollection) /\ Calm' = Calm
    BY <1>1, <1>5, <1>7 DEF Calm
  <2>2. CASE SelectDatabase
    <3>1. Out = {}
      BY <1>7, <2>2 DEF SelectDatabase
    <3> QED
      BY <1>1, <2>2, <3>1 DEF SelectDatabase, OneMongoRequest, ShowsCollection, Out
  <2>3. CASE StartCreate \/ CancelEditor \/ \E d \in docs : StartEdit(d)
    <3>1. UNCHANGED <<coll, docs>> /\ (editing' = editing \/ editing' = None \/ editing' \in docs)
      BY <2>3 DEF StartCreate, CancelEditor, StartEdit
    <3> QED
      BY <1>1, <2>1, <3>1 DEF OneMongoRequest, ShowsCollection, Out, BeingDeleted
  <2> QED
    BY <2>2, <2>3
<1> QED
  BY <1>2, <1>3, <1>4, <1>6, <1>7

(* A page is asked for, and comes or does not. *)

LEMMA MongoPage ==
  ASSUME MongoInv, NEW c \in Calls,
         \/ \E x \in Colls : SelectCollection(c, x)
         \/ \E f \in Filters : ApplyFilter(c, f)
         \/ \E p \in 0..(page + 1) : TurnPage(c, p)
  PROVE  MongoInv'
<1> USE DEF MongoInv, pageVars, editVars
<1>1. PICK x \in Colls, f \in Filters, p \in Nat :
         /\ Send(c, "find", [coll |-> x, filter |-> f, page |-> p], FALSE)
         /\ coll' = x /\ filter' = f
         /\ loading' = TRUE /\ error' = FALSE
         /\ UNCHANGED <<store, docs, page, full, editVars>>
         /\ walk' \in {walk, None}
  <2>1. Everything \in Filters /\ 0 \in Nat
    BY MongoAssumption DEF Everything, Ids
  <2>2. CASE \E x \in Colls : SelectCollection(c, x)
    BY <2>1, <2>2 DEF SelectCollection, SendFind
  <2>3. CASE \E f \in Filters : ApplyFilter(c, f)
    BY <2>1, <2>3 DEF ApplyFilter, SendFind, MongoTypeOK
  <2>4. CASE \E p \in 0..(page + 1) : TurnPage(c, p)
    <3>1. 0..(page + 1) \subseteq Nat
      BY DEF MongoTypeOK
    <3> QED
      BY <2>4, <3>1 DEF TurnPage, SendFind, MongoTypeOK
  <2> QED
    BY <2>2, <2>3, <2>4
<1>2. /\ Shape' /\ Only(c)
      /\ pc[c] = "idle" /\ pc'[c] = "sent" /\ op'[c] = "find"
      /\ arg'[c] = [coll |-> x, filter |-> f, page |-> p]
      /\ ~vague' => ~vague /\ Out = {}
  BY <1>1, SendFacts
<1>3. \A d \in Calls : MongoRequest(d)'
  BY <1>2 DEF MongoRequest, Only
<1>4. MongoTypeOK'
  BY <1>1 DEF MongoTypeOK
<1>5. MongoFlagsAccountedFor'
  <2>1. c \in Pending("find")'
    BY <1>2 DEF Pending, Out
  <2> QED
    BY <1>1, <1>2, <2>1, StaysPending DEF MongoFlagsAccountedFor
<1>6. WritesHitShownDocument'
  BY <1>2 DEF WritesHitShownDocument, Pending, Out, Only
<1>7. ~vague' => OneMongoRequest' /\ ~Calm'
  BY <1>1, <1>2 DEF OneMongoRequest, Out, Only, Calm
<1> QED
  BY <1>2, <1>3, <1>4, <1>5, <1>6, <1>7

LEMMA MongoPageComes ==
  ASSUME MongoInv, NEW c \in Calls, ServeFind(c) \/ FindAnswered(c) \/ FindFails(c)
  PROVE  MongoInv'
<1> USE DEF MongoInv, pageVars, editVars, mongoVars
<1>1. CASE ServeFind(c)
  <2> DEFINE r == ServerPage(arg[c].coll, arg[c].filter, arg[c].page)
  <2>1. /\ Shape' /\ Only(c) /\ UNCHANGED <<op, arg, vague>>
        /\ op[c] = "find" /\ pc[c] = "sent" /\ pc'[c] = "served" /\ ans'[c] = r
    BY <1>1, ServeFacts DEF ServeFind
  <2>2. UNCHANGED mongoVars
    BY <1>1 DEF ServeFind
  <2>3. r \subseteq store[arg[c].coll]
    BY DEF ServerPage
  <2>4. arg[c].coll \in Colls /\ store[arg[c].coll] \subseteq Ids
    BY <2>1 DEF MongoRequest, MongoTypeOK
  <2> HIDE DEF r
  <2>5. \A d \in Calls : MongoRequest(d)'
    BY <2>1, <2>3, <2>4 DEF MongoRequest, Only
  <2>6. MongoTypeOK'
    BY <2>2 DEF MongoTypeOK
  <2>7. MongoFlagsAccountedFor' /\ WritesHitShownDocument'
    BY <2>1, <2>2, StaysPending DEF MongoFlagsAccountedFor, WritesHitShownDocument, Pending, Out, Only
  <2>8. ~vague' => OneMongoRequest' /\ (Calm' => ShowsCollection')
    <3>1. Out' = Out /\ \A i : BeingDeleted(i) => BeingDeleted(i)'
      BY <2>1 DEF Out, Only, BeingDeleted
    <3>2. ~vague => OneMongoRequest'
      BY <2>1, <2>2, <2>3, <3>1 DEF OneMongoRequest, Only, Out
    <3>3. Calm' = Calm /\ (ShowsCollection => ShowsCollection')
      BY <2>2, <3>1 DEF ShowsCollection, Calm
    <3> QED
      BY <2>1, <3>2, <3>3
  <2> QED
    BY <2>1, <2>5, <2>6, <2>7, <2>8
<1>2. CASE FindAnswered(c)
  <2>1. /\ Shape' /\ Only(c) /\ UNCHANGED vague
        /\ op[c] = "find" /\ pc[c] = "served" /\ pc'[c] = "idle"
    BY <1>2, AnsweredFacts DEF FindAnswered
  <2>2. \A d \in Calls : MongoRequest(d)'
    BY <2>1 DEF MongoRequest, Only
  <2>3. arg[c].coll \in Colls /\ arg[c].page \in Nat /\ ans[c] \subseteq Ids
    BY <2>1 DEF MongoRequest
  <2>4. MongoTypeOK'
    BY <1>2, <2>3 DEF FindAnswered, MongoTypeOK, DocSet
  <2>5. MongoFlagsAccountedFor'
    BY <1>2, <2>1, OthersPending DEF FindAnswered, MongoFlagsAccountedFor
  <2>6. WritesHitShownDocument'
    BY <2>1 DEF WritesHitShownDocument, Pending, Out, Only
  <2>7. ASSUME ~vague'
        PROVE  OneMongoRequest' /\ ShowsCollection'
    <3>1. OneMongoRequest /\ c \in Out
      BY <2>1, <2>7 DEF Out
    <3>2. Out' = {} /\ arg[c].coll = coll /\ ans[c] \subseteq store[coll]
      BY <2>1, <3>1 DEF OneMongoRequest, Out, Only
    <3>3. /\ docs' = [id : ans[c], from : {arg[c].coll}] /\ editing' = None
          /\ UNCHANGED <<store, coll>>
      BY <1>2 DEF FindAnswered
    <3> QED
      BY <3>2, <3>3 DEF OneMongoRequest, ShowsCollection
  <2> QED
    BY <2>1, <2>2, <2>4, <2>5, <2>6, <2>7
<1>3. CASE FindFails(c)
  <2>1. /\ Shape' /\ Only(c)
        /\ op[c] = "find" /\ pc[c] # "idle" /\ pc'[c] = "idle"
        /\ ~vague' => ~vague /\ pc[c] # "served"
    BY <1>3, FailedFacts DEF FindFails
  <2>2. \A d \in Calls : MongoRequest(d)'
    BY <2>1 DEF MongoRequest, Only
  <2>3. MongoTypeOK'
    BY <1>3 DEF FindFails, MongoTypeOK
  <2>4. MongoFlagsAccountedFor'
    BY <1>3, <2>1, OthersPending DEF FindFails, MongoFlagsAccountedFor
  <2>5. WritesHitShownDocument'
    BY <2>1 DEF WritesHitShownDocument, Pending, Out, Only
  <2>6. ~vague' => OneMongoRequest' /\ ~Calm'
    BY <1>3, <2>1 DEF FindFails, OneMongoRequest, Out, Only, Calm
  <2> QED
    BY <2>1, <2>2, <2>3, <2>4, <2>5, <2>6
<1> QED
  BY <1>1, <1>2, <1>3

(* Documents are written from the page. *)

\* What a write is sent with.
WriteFits(o, a) ==
    /\ coll \in Colls /\ a.coll = coll
    /\ \/ o = "insert"
       \/ /\ o \in {"update", "deleteDocument"} /\ a.id \in Ids
          /\ a.calm => Calm
          /\ (\E d \in docs : a.from = d.from) \/ (editing # None /\ a.from = editing.from)

LEMMA MongoWrite ==
  ASSUME MongoInv, NEW c \in Calls,
         SaveEdit(c) \/ SaveCreate(c) \/ \E d \in docs : Delete(c, d)
  PROVE  MongoInv'
<1> USE DEF MongoInv, pageVars, editVars
<1>1. PICK o, a : Send(c, o, a, FALSE) /\ WriteFits(o, a)
  <2>1. CASE SaveEdit(c)
    <3> DEFINE a == [coll |-> coll, id |-> editing.id, from |-> editing.from, calm |-> Calm]
    <3>1. Send(c, "update", a, FALSE) /\ editing # None /\ coll # None
      BY <2>1 DEF SaveEdit
    <3>2. a.id \in Ids /\ a.coll = coll /\ coll \in Colls /\ a.from = editing.from /\ (a.calm => Calm)
      BY <3>1 DEF MongoTypeOK, DocSet
    <3> HIDE DEF a
    <3>3. WriteFits("update", a)
      BY <3>1, <3>2 DEF WriteFits
    <3> QED
      BY <3>1, <3>3
  <2>2. CASE SaveCreate(c)
    <3> DEFINE a == [coll |-> coll]
    <3>1. Send(c, "insert", a, FALSE) /\ coll \in Colls
      BY <2>2 DEF SaveCreate, MongoTypeOK
    <3>2. WriteFits("insert", a)
      BY <3>1 DEF WriteFits
    <3> HIDE DEF a
    <3> QED
      BY <3>1, <3>2
  <2>3. ASSUME NEW d \in docs, Delete(c, d)
        PROVE  \E o, x : Send(c, o, x, FALSE) /\ WriteFits(o, x)
    <3> DEFINE a == [coll |-> coll, id |-> d.id, from |-> d.from, calm |-> Calm]
    <3>1. Send(c, "deleteDocument", a, FALSE) /\ coll # None
      BY <2>3 DEF Delete
    <3>2. a.id \in Ids /\ a.coll = coll /\ coll \in Colls /\ a.from = d.from /\ (a.calm => Calm)
      BY <3>1 DEF MongoTypeOK, DocSet
    <3> HIDE DEF a
    <3>3. WriteFits("deleteDocument", a)
      BY <3>2 DEF WriteFits
    <3> QED
      BY <3>1, <3>3
  <2> QED
    BY <2>1, <2>2, <2>3
<1>2. /\ Shape' /\ Only(c)
      /\ pc[c] = "idle" /\ pc'[c] = "sent" /\ op'[c] = o /\ arg'[c] = a
      /\ ~vague' => ~vague /\ Out = {}
  BY <1>1, SendFacts
<1>3. /\ UNCHANGED <<store, coll, filter, docs, page, full, walk, loading, error, editing, creating>>
      /\ o # "update" => UNCHANGED editSaving
      /\ o # "insert" => UNCHANGED createSaving
      /\ o # "deleteDocument" => UNCHANGED deletingId
      /\ {editSaving', createSaving'} \subseteq BOOLEAN /\ deletingId' \in Ids \cup {None}
  <2>1. CASE SaveEdit(c)
    <3>1. o = "update"
      BY <1>2, <2>1 DEF SaveEdit, Send, Shape
    <3> QED
      BY <2>1, <3>1 DEF SaveEdit, MongoTypeOK
  <2>2. CASE SaveCreate(c)
    <3>1. o = "insert"
      BY <1>2, <2>2 DEF SaveCreate, Send, Shape
    <3> QED
      BY <2>2, <3>1 DEF SaveCreate, MongoTypeOK
  <2>3. ASSUME NEW d \in docs, Delete(c, d)
        PROVE  <1>3!:
    <3>1. o = "deleteDocument" /\ d.id \in Ids
      BY <1>2, <2>3 DEF Delete, Send, Shape, MongoTypeOK, DocSet
    <3> QED
      BY <2>3, <3>1 DEF Delete, MongoTypeOK
  <2> QED
    BY <2>1, <2>2, <2>3
<1>4. \A d \in Calls : MongoRequest(d)'
  BY <1>1, <1>2 DEF MongoRequest, Only, WriteFits
<1>5. MongoTypeOK'
  BY <1>3 DEF MongoTypeOK
<1>6. MongoFlagsAccountedFor'
  <2>1. c \in Pending(o)'
    BY <1>2 DEF Pending, Out
  <2> QED
    BY <1>1, <1>2, <1>3, <2>1, StaysPending DEF MongoFlagsAccountedFor, WriteFits
<1>7. WritesHitShownDocument'
  <2>1. o # "insert" /\ a.calm /\ ~vague' => a.from = a.coll
    BY <1>1, <1>2, MongoAssumption DEF ShowsCollection, WriteFits
  <2>2. \A d \in Pending("update")' \cup Pending("deleteDocument")' :
           d = c \/ d \in Pending("update") \cup Pending("deleteDocument")
    BY <1>2 DEF Pending, Out, Only
  <2>3. c \in Pending("update")' \cup Pending("deleteDocument")' => o # "insert"
    BY <1>2 DEF Pending, Out
  <2>4. \A d \in Pending("update") \cup Pending("deleteDocument") : d # c /\ d \in Calls
    BY <1>2 DEF Pending, Out
  <2> QED
    BY <1>2, <2>1, <2>2, <2>3, <2>4 DEF WritesHitShownDocument, Only
<1>8. ~vague' => OneMongoRequest' /\ (Calm' => ShowsCollection')
  <2>1. Out' \subseteq Out \cup {c}
    BY <1>2 DEF Out, Only
  <2>2. ~vague' => OneMongoRequest'
    BY <1>1, <1>2, <1>3, <2>1 DEF OneMongoRequest, WriteFits
  <2>3. ~vague' /\ Calm' => ShowsCollection'
    <3>1. Calm' = Calm /\ (Out = {} => \A i : ~BeingDeleted(i))
      BY <1>3 DEF Calm, BeingDeleted
    <3> QED
      BY <1>2, <1>3, <3>1 DEF ShowsCollection
  <2> QED
    BY <2>2, <2>3
<1> QED
  BY <1>2, <1>4, <1>5, <1>6, <1>7, <1>8

\* What a write that is carried out does to the store.
ServedFits(c, o, r) ==
    \/ o = "update" /\ UNCHANGED store
    \/ /\ o = "insert" /\ r \subseteq Ids
       /\ store' = [store EXCEPT ![arg[c].coll] = @ \cup r]
    \/ o = "deleteDocument" /\ store' = [store EXCEPT ![arg[c].coll] = @ \ {arg[c].id}]

LEMMA MongoServed ==
  ASSUME MongoInv, NEW c \in Calls,
         ServeUpdate(c) \/ (\E i \in Ids : ServeInsert(c, i)) \/ ServeDeleteDocument(c)
  PROVE  MongoInv'
<1> USE DEF MongoInv, pageVars, editVars, mongoVars
<1>1. PICK o, r : Serve(c, o, "sent", r) /\ ServedFits(c, o, r)
  <2>1. CASE ServeUpdate(c)
    <3>1. Serve(c, "update", "sent", None) /\ ServedFits(c, "update", None)
      BY <2>1 DEF ServeUpdate, ServedFits
    <3> QED
      BY <3>1
  <2>2. ASSUME NEW i \in Ids, ServeInsert(c, i)
        PROVE  \E o, x : Serve(c, o, "sent", x) /\ ServedFits(c, o, x)
    <3>1. Serve(c, "insert", "sent", {i}) /\ ServedFits(c, "insert", {i})
      BY <2>2 DEF ServeInsert, ServedFits
    <3> QED
      BY <3>1
  <2>3. CASE ServeDeleteDocument(c)
    <3>1. Serve(c, "deleteDocument", "sent", None) /\ ServedFits(c, "deleteDocument", None)
      BY <2>3 DEF ServeDeleteDocument, ServedFits
    <3> QED
      BY <3>1
  <2> QED
    BY <2>1, <2>2, <2>3
<1>2. /\ UNCHANGED <<coll, filter, docs, page, full, loading, error, editVars>>
      /\ walk' \in {walk, None}
  BY DEF ServeUpdate, ServeInsert, ServeDeleteDocument
<1>3. /\ Shape' /\ Only(c) /\ UNCHANGED <<op, arg, vague>>
      /\ op[c] = o /\ pc[c] = "sent" /\ pc'[c] = "served" /\ ans'[c] = r
  BY <1>1, ServeFacts
<1>4. arg[c].coll \in Colls /\ Out' = Out /\ c \in Out
  BY <1>3 DEF MongoRequest, Out, Only
<1>5. \A d \in Calls : MongoRequest(d)'
  BY <1>1, <1>3 DEF MongoRequest, Only, ServedFits
<1>6. MongoTypeOK'
  BY <1>1, <1>2, <1>4 DEF MongoTypeOK, ServedFits
<1>7. MongoFlagsAccountedFor' /\ WritesHitShownDocument'
  BY <1>2, <1>3, <1>4, StaysPending DEF MongoFlagsAccountedFor, WritesHitShownDocument, Pending
<1>8. ASSUME ~vague'
      PROVE  OneMongoRequest' /\ (Calm' => ShowsCollection')
  <2>1. OneMongoRequest /\ Out = {c} /\ arg[c].coll = coll /\ coll \in Colls
    BY <1>3, <1>4, <1>8 DEF OneMongoRequest
  <2>2. store \in [Colls -> SUBSET Ids]
    BY DEF MongoTypeOK
  <2>3. OneMongoRequest'
    BY <1>1, <1>2, <1>3, <1>4, <2>1, <2>2 DEF OneMongoRequest, ServedFits
  <2>4. ASSUME Calm'
        PROVE  ShowsCollection'
    <3>1. ShowsCollection
      BY <1>2, <1>3, <1>8, <2>4 DEF Calm
    <3>2. \A i : ~BeingDeleted(i)
      BY <1>3, <2>1 DEF BeingDeleted
    <3>3. \A i \in store[coll] : i \in store'[coll] \/ (o = "deleteDocument" /\ i = arg[c].id)
      BY <1>1, <2>1, <2>2 DEF ServedFits
    <3>4. \A i : o = "deleteDocument" /\ i = arg[c].id => BeingDeleted(i)'
      BY <1>3, <1>4 DEF BeingDeleted
    <3>5. \A d \in docs : d.from = coll /\ (d.id \in store'[coll] \/ BeingDeleted(d.id)')
      BY <3>1, <3>2, <3>3, <3>4 DEF ShowsCollection
    <3> QED
      BY <1>2, <3>1, <3>5 DEF ShowsCollection
  <2> QED
    BY <2>3, <2>4
<1> QED
  BY <1>3, <1>5, <1>6, <1>7, <1>8

LEMMA MongoWritten ==
  ASSUME MongoInv, NEW c \in Calls,
         UpdateAnswered(c) \/ InsertAnswered(c) \/ DeleteAnswered(c) \/ WriteFails(c)
  PROVE  MongoInv'
<1> USE DEF MongoInv, pageVars, editVars
<1>1. /\ Shape' /\ Only(c)
      /\ op[c] \in {"update", "insert", "deleteDocument"} /\ pc[c] # "idle" /\ pc'[c] = "idle"
      /\ ~vague' => ~vague /\ (WriteFails(c) => pc[c] # "served")
  BY AnsweredFacts, FailedFacts DEF UpdateAnswered, InsertAnswered, DeleteAnswered, WriteFails
<1>2. \A d \in Calls : MongoRequest(d)'
  BY <1>1 DEF MongoRequest, Only
<1>3. arg[c].coll \in Colls /\ (op[c] # "insert" => arg[c].id \in Ids)
  BY <1>1 DEF MongoRequest
<1>4. UNCHANGED <<store, coll, filter, page, full, walk, loading, error>>
  BY DEF UpdateAnswered, InsertAnswered, DeleteAnswered, WriteFails
<1>5. docs' \subseteq DocSet
  <2>1. CASE UpdateAnswered(c)
    BY <1>3, <2>1 DEF UpdateAnswered, MongoTypeOK, DocSet
  <2>2. CASE InsertAnswered(c)
    <3>1. ans[c] \subseteq Ids
      BY <2>2, AnsweredFacts DEF InsertAnswered, MongoRequest
    <3> QED
      BY <1>3, <2>2, <3>1 DEF InsertAnswered, MongoTypeOK, DocSet
  <2>3. CASE DeleteAnswered(c) \/ WriteFails(c)
    BY <2>3 DEF DeleteAnswered, WriteFails, MongoTypeOK
  <2> QED
    BY <2>1, <2>2, <2>3
<1>6. /\ editing' \in {editing, None}
      /\ deletingId' \in {deletingId, None}
      /\ creating' \in BOOLEAN
      /\ editSaving' \in BOOLEAN /\ (editSaving' => editSaving /\ op[c] # "update")
      /\ createSaving' \in BOOLEAN /\ (createSaving' => createSaving /\ op[c] # "insert")
      /\ deletingId' # None => op[c] # "deleteDocument" /\ deletingId' = deletingId
  <2>1. CASE UpdateAnswered(c)
    <3>1. op[c] = "update"
      BY <2>1, AnsweredFacts DEF UpdateAnswered
    <3> QED
      BY <2>1, <3>1 DEF UpdateAnswered, MongoTypeOK
  <2>2. CASE InsertAnswered(c)
    <3>1. op[c] = "insert"
      BY <2>2, AnsweredFacts DEF InsertAnswered
    <3> QED
      BY <2>2, <3>1 DEF InsertAnswered, MongoTypeOK
  <2>3. CASE DeleteAnswered(c)
    <3>1. op[c] = "deleteDocument"
      BY <2>3, AnsweredFacts DEF DeleteAnswered
    <3> QED
      BY <2>3, <3>1 DEF DeleteAnswered, MongoTypeOK
  <2>4. CASE WriteFails(c)
    BY <2>4 DEF WriteFails, MongoTypeOK
  <2> QED
    BY <2>1, <2>2, <2>3, <2>4
<1>7. MongoTypeOK'
  BY <1>4, <1>5, <1>6 DEF MongoTypeOK
<1>8. MongoFlagsAccountedFor'
  BY <1>1, <1>4, <1>6, OthersPending DEF MongoFlagsAccountedFor
<1>9. WritesHitShownDocument'
  BY <1>1 DEF WritesHitShownDocument, Pending, Out, Only
<1>10. ASSUME ~vague'
       PROVE  OneMongoRequest' /\ (Calm' => ShowsCollection')
  <2>1. /\ OneMongoRequest /\ Out = {c} /\ arg[c].coll = coll
        /\ pc[c] = "served" /\ op[c] = "insert" => ans[c] \subseteq store[coll]
    BY <1>1, <1>10 DEF OneMongoRequest, Out
  <2>2. Out' = {}
    BY <1>1, <2>1 DEF Out, Only
  <2>3. ASSUME Calm'
        PROVE  ShowsCollection'
    <3>1. ShowsCollection
      BY <1>1, <1>4, <1>10, <2>3 DEF Calm
    <3>2. \A i : BeingDeleted(i) => op[c] = "deleteDocument" /\ pc[c] = "served" /\ i = arg[c].id
      BY <2>1 DEF BeingDeleted
    <3>3. \A d \in docs' : d.from = coll /\ d.id \in store[coll]
      <4>1. CASE UpdateAnswered(c)
        <5>1. op[c] = "update"
          BY <4>1, AnsweredFacts DEF UpdateAnswered
        <5>2. \A d \in docs : d.from = coll /\ d.id \in store[coll] /\ d \in DocSet
          BY <3>1, <3>2, <5>1 DEF ShowsCollection, MongoTypeOK
        <5> QED
          BY <2>1, <4>1, <5>2 DEF UpdateAnswered, DocSet
      <4>2. CASE InsertAnswered(c)
        <5>1. op[c] = "insert" /\ pc[c] = "served"
          BY <4>2, AnsweredFacts DEF InsertAnswered
        <5> QED
          BY <2>1, <3>1, <3>2, <4>2, <5>1 DEF InsertAnswered, ShowsCollection
      <4>3. CASE DeleteAnswered(c)
        BY <3>1, <3>2, <4>3 DEF DeleteAnswered, ShowsCollection
      <4>4. CASE WriteFails(c)
        BY <1>1, <1>10, <3>1, <3>2, <4>4 DEF WriteFails, ShowsCollection
      <4> QED
        BY <4>1, <4>2, <4>3, <4>4
    <3> QED
      BY <1>4, <1>6, <3>1, <3>3 DEF ShowsCollection
  <2> QED
    BY <2>2, <2>3 DEF OneMongoRequest
<1> QED
  BY <1>1, <1>2, <1>7, <1>8, <1>9, <1>10

LEMMA MongoStep == MongoInv /\ MongoNext => MongoInv'
  BY MongoClick, MongoPage, MongoPageComes, MongoWrite, MongoServed, MongoWritten DEF MongoNext

-----------------------------------------------------------------------------
(***************************************************************************)
(* The pages of a walk fit together.                                       *)
(***************************************************************************)
Page(S, p) == {i \in S : Rank(S, i) \in (p * PageSize + 1)..((p + 1) * PageSize)}

\* Ranks number the documents of a finite set from 1, each once.
LEMMA Ranks ==
  ASSUME NEW S \in SUBSET Ids
  PROVE  /\ IsFiniteSet(S) /\ Cardinality(S) \in Nat
         /\ [i \in S |-> Rank(S, i)] \in Bijection(S, 1..Cardinality(S))
<1> DEFINE N == Cardinality(S)
           upto(i) == {j \in S : j <= i}
           rank == [i \in S |-> Rank(S, i)]
<1>1. IsFiniteSet(S) /\ N \in Nat /\ \A i \in S : i \in Nat
  <2>1. IsFiniteSet(Ids) /\ Ids \subseteq Nat
    BY MongoAssumption, FS_Interval DEF Ids
  <2> QED
    BY <2>1, FS_Subset, FS_CardinalityType
<1>2. ASSUME NEW i \in S
      PROVE  /\ upto(i) \in SUBSET S /\ IsFiniteSet(upto(i)) /\ i \in upto(i)
             /\ rank[i] = Cardinality(upto(i)) /\ rank[i] \in 1..N
  <2>1. upto(i) \in SUBSET S /\ i \in upto(i)
    BY <1>1
  <2>2. IsFiniteSet(upto(i)) /\ Cardinality(upto(i)) <= N /\ Cardinality(upto(i)) \in Nat
    BY <1>1, <2>1, FS_Subset, FS_CardinalityType
  <2>3. Cardinality(upto(i)) # 0
    BY <2>1, <2>2, FS_EmptySet
  <2>4. Rank(S, i) = Cardinality(upto(i))
    BY DEF Rank
  <2>5. rank[i] = Rank(S, i)
    OBVIOUS
  <2> HIDE DEF rank, upto
  <2> QED
    BY <1>1, <2>1, <2>2, <2>3, <2>4, <2>5
<1>3. ASSUME NEW i \in S, NEW k \in S, i < k
      PROVE  rank[i] # rank[k]
  <2>1. k \notin upto(i) /\ upto(i) \in SUBSET upto(k)
    BY <1>1, <1>3
  <2>2. Cardinality(upto(k)) # Cardinality(upto(i))
    BY <1>2, <2>1, FS_Subset
  <2> QED
    BY <1>2, <2>2
<1>4. rank \in [S -> 1..N]
  BY <1>2
<1> HIDE DEF rank
<1>5. \A i, k \in S : i # k => i < k \/ k < i
  BY <1>1
<1>6. \A i, k \in S : rank[i] = rank[k] => i = k
  BY <1>3, <1>5
<1>7. rank \in Injection(S, 1..N)
  BY <1>4, <1>6 DEF Injection, IsInjective
<1>8. IsFiniteSet(1..N) /\ Cardinality(1..N) = N
  BY <1>1, FS_Interval
<1>9. rank \in Surjection(S, 1..N)
  <2>1. IsFiniteSet(1..N) /\ Cardinality(S) = Cardinality(1..N)
    BY <1>8
  <2> HIDE DEF N
  <2> QED
    BY <1>7, <2>1, FS_Injection
<1> QED
  BY <1>1, <1>7, <1>9 DEF Bijection, rank

\* A page with fewer than PageSize documents has none after it.
LEMMA LastPage ==
  ASSUME NEW S \in SUBSET Ids, NEW p \in Nat, Cardinality(Page(S, p)) # PageSize,
         NEW i \in S
  PROVE  Rank(S, i) <= (p + 1) * PageSize
<1> DEFINE N == Cardinality(S)
           rank == [j \in S |-> Rank(S, j)]
           a == p * PageSize + 1
           b == (p + 1) * PageSize
           P == Page(S, p)
           short == [j \in P |-> rank[j]]
<1>1. N \in Nat /\ rank \in Bijection(S, 1..N) /\ IsFiniteSet(S)
  BY Ranks
<1>2. PageSize \in Nat /\ PageSize > 0
  BY MongoAssumption
<1>3. a \in Nat /\ b \in Nat /\ a >= 1 /\ b = a + PageSize - 1
  BY <1>2
<1>4. /\ \A j \in S : rank[j] \in 1..N
      /\ \A j, k \in S : rank[j] = rank[k] => j = k
      /\ \A r \in 1..N : \E j \in S : rank[j] = r
  BY <1>1 DEF Bijection, Injection, IsInjective, Surjection
<1>5. P = {j \in S : rank[j] \in a..b}
  BY DEF Page
<1>6. rank[i] = Rank(S, i)
  OBVIOUS
<1> HIDE DEF rank, a, b, P
<1> SUFFICES ASSUME rank[i] > b
             PROVE  FALSE
  BY <1>3, <1>4, <1>6 DEF b
<1>7. b <= N
  BY <1>1, <1>3, <1>4
<1>8. short \in Bijection(P, a..b)
  <2>1. short \in [P -> a..b]
    BY <1>5
  <2>2. \A j, k \in P : short[j] = short[k] => j = k
    BY <1>4, <1>5
  <2>3. \A r \in a..b : \E j \in P : short[j] = r
    <3> SUFFICES ASSUME NEW r \in a..b
                 PROVE  \E j \in P : short[j] = r
      OBVIOUS
    <3>1. r \in 1..N
      BY <1>1, <1>3, <1>7
    <3>2. PICK j \in S : rank[j] = r
      BY <1>4, <3>1
    <3> QED
      BY <1>5, <3>2
  <2> HIDE DEF short
  <2> QED
    BY <2>1, <2>2, <2>3 DEF Bijection, Injection, IsInjective, Surjection
<1>9. IsFiniteSet(P)
  BY <1>1, <1>5, FS_Subset
<1>10. Cardinality(a..b) = Cardinality(P)
  <2>1. ExistsBijection(P, a..b)
    BY <1>8 DEF ExistsBijection
  <2> QED
    BY <1>9, <2>1, FS_Bijection
<1>11. Cardinality(a..b) = PageSize
  <2>1. a \in Int /\ b \in Int /\ ~(a > b)
    BY <1>2, <1>3
  <2>2. Cardinality(a..b) = b - a + 1
    BY <2>1, FS_Interval
  <2> QED
    BY <1>2, <1>3, <2>2
<1> QED
  BY <1>10, <1>11 DEF P

\* Up to page p every document has been shown, if page q or an earlier one
\* follows on p.
LEMMA NextPage ==
  ASSUME NEW S \in SUBSET Ids, NEW p \in Nat, NEW q \in Nat, NEW i \in S,
         Rank(S, i) <= (q + 1) * PageSize, i \notin Page(S, q)
  PROVE  q > 0 /\ (q <= p + 1 => Rank(S, i) <= (p + 1) * PageSize)
<1>1. PageSize \in Nat /\ PageSize > 0
  BY MongoAssumption
<1>2. Rank(S, i) \in Nat /\ Rank(S, i) >= 1
  <2> DEFINE rank == [j \in S |-> Rank(S, j)]
  <2>1. rank \in [S -> 1..Cardinality(S)] /\ Cardinality(S) \in Nat
    BY Ranks DEF Bijection, Injection
  <2>2. rank[i] \in 1..Cardinality(S) /\ rank[i] = Rank(S, i)
    BY <2>1
  <2> QED
    BY <2>1, <2>2
<1>3. q * PageSize \in Nat /\ (q + 1) * PageSize \in Nat /\ (p + 1) * PageSize \in Nat
  BY <1>1
<1>4. Rank(S, i) <= q * PageSize
  BY <1>2, <1>3 DEF Page
<1>5. q # 0
  BY <1>1, <1>2, <1>4
<1>6. ASSUME q <= p + 1
      PROVE  q * PageSize <= (p + 1) * PageSize
  <2>1. PICK k \in Nat : p + 1 = q + k
    <3>1. (p + 1) - q \in Nat /\ p + 1 = q + ((p + 1) - q)
      BY <1>6
    <3> QED
      BY <3>1
  <2>2. (q + k) * PageSize = q * PageSize + k * PageSize /\ k * PageSize \in Nat
    BY <1>1
  <2> QED
    BY <1>3, <2>1, <2>2
<1> QED
  BY <1>2, <1>3, <1>4, <1>5, <1>6

Matches == store[coll] \cap filter

\* A walk has shown everything up to its page.
WalkIsComplete ==
    walk # None /\ coll # None =>
        /\ \A i \in Matches : Rank(Matches, i) <= (page + 1) * PageSize => i \in walk
        /\ full = (Cardinality(Page(Matches, page)) = PageSize)

\* A page on its way is one of the matches, and follows on the page shown.
PageFollows(c) ==
    pc[c] # "idle" /\ op[c] = "find" =>
        /\ coll # None /\ arg[c].filter = filter
        /\ walk # None => arg[c].page <= page + 1
        /\ pc[c] = "served" => ans[c] = Page(Matches, arg[c].page)

WalkInv == ~vague => WalkIsComplete /\ \A c \in Calls : PageFollows(c)

\* The clicks that ask for no page, and all that does not touch the pages.
LEMMA WalkFrame ==
  ASSUME WalkInv, UNCHANGED <<store, coll, filter, page, full, walk>>, ~vague' => ~vague,
         \A c \in Calls : pc'[c] = "idle" \/ op'[c] # "find" \/ UNCHANGED <<pc[c], op[c], arg[c], ans[c]>>
  PROVE  WalkInv'
<1>1. Matches' = Matches
  BY DEF Matches
<1>2. WalkIsComplete => WalkIsComplete'
  BY <1>1 DEF WalkIsComplete, Page, Rank
<1>3. ASSUME NEW c \in Calls, PageFollows(c)
      PROVE  PageFollows(c)'
  BY <1>1, <1>3 DEF PageFollows, Page, Rank
<1> QED
  BY <1>2, <1>3 DEF WalkInv

LEMMA WalkAsks ==
  ASSUME MongoInv, WalkInv, NEW c \in Calls,
         \/ \E x \in Colls : SelectCollection(c, x)
         \/ \E f \in Filters : ApplyFilter(c, f)
         \/ \E p \in 0..(page + 1) : TurnPage(c, p)
  PROVE  WalkInv'
<1> USE DEF MongoInv
<1>1. PICK x, f, p : SendFind(c, x, f, p)
  BY DEF SelectCollection, ApplyFilter, TurnPage
<1>2. /\ Only(c) /\ pc'[c] = "sent" /\ op'[c] = "find"
      /\ arg'[c] = [coll |-> x, filter |-> f, page |-> p]
      /\ ~vague' => ~vague /\ Out = {}
  BY <1>1, SendFacts DEF SendFind
<1>3. ASSUME ~vague', NEW d \in Calls \ {c}
      PROVE  PageFollows(d)'
  BY <1>2, <1>3 DEF PageFollows, Only, Out
<1>4. CASE \/ \E x1 \in Colls : SelectCollection(c, x1)
           \/ \E f1 \in Filters : ApplyFilter(c, f1)
  <2>1. walk' = None
    BY <1>4 DEF SelectCollection, ApplyFilter
  <2>2. coll' # None /\ arg'[c].filter = filter'
    BY <1>2, <1>4, MongoAssumption DEF SelectCollection, ApplyFilter, SendFind, Send, Shape
  <2> QED
    BY <1>2, <1>3, <2>1, <2>2 DEF WalkInv, WalkIsComplete, PageFollows
<1>5. CASE \E p1 \in 0..(page + 1) : TurnPage(c, p1)
  <2>1. PICK p1 \in 0..(page + 1) : TurnPage(c, p1)
    BY <1>5
  <2>2. /\ UNCHANGED <<store, coll, filter, page, full, walk>> /\ coll # None
        /\ SendFind(c, coll, filter, p1)
    BY <2>1 DEF TurnPage, pageVars
  <2>3. arg'[c] = [coll |-> coll, filter |-> filter, page |-> p1]
    BY <2>2, SendFacts DEF SendFind
  <2>4. page \in Nat /\ p1 <= page + 1
    BY DEF MongoTypeOK
  <2>5. PageFollows(c)'
    BY <1>2, <2>2, <2>3, <2>4 DEF PageFollows
  <2>6. Matches' = Matches
    BY <2>2 DEF Matches
  <2>7. ~vague' => WalkIsComplete'
    BY <1>2, <2>2, <2>6 DEF WalkInv, WalkIsComplete, Page, Rank
  <2> QED
    BY <1>3, <2>5, <2>7 DEF WalkInv
<1> QED
  BY <1>4, <1>5

LEMMA WalkPageComes ==
  ASSUME MongoInv, WalkInv, NEW c \in Calls, ServeFind(c) \/ FindAnswered(c)
  PROVE  WalkInv'
<1> USE DEF MongoInv
<1> SUFFICES ASSUME ~vague'
             PROVE  WalkIsComplete' /\ \A d \in Calls : PageFollows(d)'
  BY DEF WalkInv
<1>1. CASE ServeFind(c)
  <2> DEFINE r == ServerPage(arg[c].coll, arg[c].filter, arg[c].page)
  <2>1. /\ Only(c) /\ UNCHANGED <<op, arg, vague>>
        /\ op[c] = "find" /\ pc[c] = "sent" /\ pc'[c] = "served" /\ ans'[c] = r
    BY <1>1, ServeFacts DEF ServeFind
  <2>2. UNCHANGED <<store, coll, filter, page, full, walk>>
    BY <1>1 DEF ServeFind, mongoVars, pageVars
  <2>3. Matches' = Matches
    BY <2>2 DEF Matches
  <2>4. c \in Out /\ OneMongoRequest /\ WalkIsComplete /\ \A d \in Calls : PageFollows(d)
    BY <2>1 DEF WalkInv, Out
  <2>5. arg[c].coll = coll /\ arg[c].filter = filter
    BY <2>1, <2>4 DEF OneMongoRequest, PageFollows
  <2>6. ans'[c] = Page(Matches, arg[c].page)
    BY <2>1, <2>5 DEF ServerPage, Page, Matches
  <2>7. PageFollows(c)'
    BY <2>1, <2>2, <2>3, <2>4, <2>6 DEF PageFollows, Page, Rank
  <2>8. ASSUME NEW d \in Calls \ {c}
        PROVE  PageFollows(d)'
    BY <2>1, <2>2, <2>3, <2>4 DEF PageFollows, Only, Page, Rank
  <2>9. WalkIsComplete'
    BY <2>2, <2>3, <2>4 DEF WalkIsComplete, Page, Rank
  <2> QED
    BY <2>7, <2>8, <2>9
<1>2. CASE FindAnswered(c)
  <2>1. /\ Only(c) /\ UNCHANGED vague
        /\ op[c] = "find" /\ pc[c] = "served" /\ pc'[c] = "idle"
    BY <1>2, AnsweredFacts DEF FindAnswered
  <2>2. c \in Out /\ OneMongoRequest /\ WalkIsComplete /\ PageFollows(c)
    BY <2>1 DEF WalkInv, Out
  <2>3. \A d \in Calls : pc'[d] = "idle"
    BY <2>1, <2>2 DEF OneMongoRequest, Out, Only
  <2> DEFINE q == arg[c].page
  <2>4. /\ q \in Nat /\ page \in Nat /\ coll \in Colls /\ None \notin Colls
        /\ coll # None /\ ans[c] = Page(Matches, q) /\ (walk # None => q <= page + 1)
    BY <2>1, <2>2, MongoAssumption DEF MongoRequest, PageFollows, MongoTypeOK
  <2>5. /\ UNCHANGED <<store, coll, filter>> /\ page' = q
        /\ full' = (Cardinality(ans[c]) = PageSize)
        /\ walk' = IF q = 0 THEN ans[c]
                   ELSE IF walk = None THEN None ELSE walk \cup ans[c]
    BY <1>2 DEF FindAnswered
  <2>6. Matches' = Matches /\ Matches \in SUBSET Ids
    BY <2>4, <2>5 DEF Matches, MongoTypeOK
  <2> HIDE DEF q
  <2>7. ASSUME walk' # None, NEW i \in Matches, Rank(Matches, i) <= (q + 1) * PageSize
        PROVE  i \in walk'
    <3>1. CASE i \in Page(Matches, q)
      BY <2>4, <2>5, <2>7, <3>1
    <3>2. CASE i \notin Page(Matches, q)
      <4>1. q > 0 /\ (q <= page + 1 => Rank(Matches, i) <= (page + 1) * PageSize)
        BY <2>4, <2>6, <2>7, <3>2, NextPage
      <4>2. walk # None /\ walk' = walk \cup ans[c]
        BY <2>4, <2>5, <2>7, <4>1
      <4> QED
        BY <2>2, <2>4, <4>1, <4>2 DEF WalkIsComplete
    <3> QED
      BY <3>1, <3>2
  <2>8. WalkIsComplete'
    BY <2>4, <2>5, <2>6, <2>7 DEF WalkIsComplete, Page, Rank
  <2> QED
    BY <2>3, <2>8 DEF PageFollows
<1> QED
  BY <1>1, <1>2

\* While a document is inserted or deleted no page is on its way, and the
\* walk is over.
LEMMA WalkEnds ==
  ASSUME MongoInv, WalkInv, NEW c \in Calls,
         ServeDeleteDocument(c) \/ \E i \in Ids : ServeInsert(c, i)
  PROVE  WalkInv'
<1> USE DEF MongoInv
<1>1. PICK o, r : Serve(c, o, "sent", r) /\ o \in {"insert", "deleteDocument"}
  BY DEF ServeDeleteDocument, ServeInsert
<1>2. /\ Only(c) /\ UNCHANGED <<op, arg, vague>> /\ op[c] = o /\ pc[c] = "sent"
  BY <1>1, ServeFacts
<1>3. walk' = None
  BY DEF ServeDeleteDocument, ServeInsert
<1>4. ASSUME ~vague', NEW d \in Calls
      PROVE  PageFollows(d)'
  <2>1. OneMongoRequest /\ c \in Out
    BY <1>2, <1>4 DEF Out
  <2>2. d = c \/ pc'[d] = "idle"
    BY <1>2, <2>1 DEF OneMongoRequest, Out, Only
  <2>3. op'[c] # "find"
    BY <1>1, <1>2
  <2>4. pc'[d] = "idle" \/ op'[d] # "find"
    BY <2>2, <2>3
  <2> HIDE DEF MongoInv
  <2> QED
    BY <2>4 DEF PageFollows
<1> QED
  BY <1>3, <1>4 DEF WalkInv, WalkIsComplete

LEMMA WalkStep == MongoInv /\ WalkInv /\ MongoNext => WalkInv'
<1> SUFFICES ASSUME MongoInv, WalkInv, MongoNext
             PROVE  WalkInv'
  OBVIOUS
<1> USE DEF pageVars, editVars, mongoVars, requestVars
<1>0. Shape
  BY DEF MongoInv
<1>1. CASE SelectDatabase
  <2>1. coll' = None /\ UNCHANGED <<op, pc, arg, ans>> /\ (~vague' => Out = {})
    BY <1>1 DEF SelectDatabase
  <2> QED
    BY <2>1 DEF WalkInv, WalkIsComplete, PageFollows, Out
<1>2. CASE StartCreate \/ CancelEditor \/ \E d \in docs : StartEdit(d)
  <2>1. UNCHANGED <<op, pc, arg, ans, vague, store, coll, filter, page, full, walk>>
    BY <1>2 DEF StartCreate, CancelEditor, StartEdit
  <2> QED
    BY <2>1, WalkFrame
<1>3. ASSUME NEW c \in Calls,
             SaveEdit(c) \/ SaveCreate(c) \/ \E d \in docs : Delete(c, d)
      PROVE  WalkInv'
  <2>1. PICK o, a : Send(c, o, a, FALSE) /\ o \in {"update", "insert", "deleteDocument"}
    BY <1>3 DEF SaveEdit, SaveCreate, Delete
  <2>2. Only(c) /\ op'[c] = o /\ (~vague' => ~vague)
    BY <1>0, <2>1, SendFacts
  <2>3. UNCHANGED <<store, coll, filter, page, full, walk>>
    BY <1>3 DEF SaveEdit, SaveCreate, Delete
  <2>4. ASSUME NEW d \in Calls
        PROVE  op'[d] # "find" \/ UNCHANGED <<pc[d], op[d], arg[d], ans[d]>>
    BY <2>1, <2>2 DEF Only
  <2>5. ~vague' => ~vague
    BY <2>2
  <2> QED
    BY <2>3, <2>4, <2>5, WalkFrame
<1>4. ASSUME NEW c \in Calls, ServeUpdate(c)
      PROVE  WalkInv'
  <2>1. Only(c) /\ UNCHANGED <<op, vague>> /\ op[c] = "update"
    BY <1>0, <1>4, ServeFacts DEF ServeUpdate
  <2>2. UNCHANGED <<store, coll, filter, page, full, walk>>
    BY <1>4 DEF ServeUpdate
  <2> QED
    BY <2>1, <2>2, WalkFrame DEF Only
<1>5. ASSUME NEW c \in Calls, UpdateAnswered(c) \/ InsertAnswered(c) \/ DeleteAnswered(c)
      PROVE  WalkInv'
  <2>1. PICK o : Answered(c, o)
    BY <1>5 DEF UpdateAnswered, InsertAnswered, DeleteAnswered
  <2>2. Only(c) /\ UNCHANGED vague /\ pc'[c] = "idle"
    BY <1>0, <2>1, AnsweredFacts
  <2>3. UNCHANGED <<store, coll, filter, page, full, walk>>
    BY <1>5 DEF UpdateAnswered, InsertAnswered, DeleteAnswered
  <2> QED
    BY <2>2, <2>3, WalkFrame DEF Only
<1>6. ASSUME NEW c \in Calls, FindFails(c) \/ WriteFails(c)
      PROVE  WalkInv'
  <2>1. PICK o : Failed(c, o)
    BY <1>6 DEF FindFails, WriteFails
  <2>2. Only(c) /\ (~vague' => ~vague) /\ pc'[c] = "idle"
    BY <1>0, <2>1, FailedFacts
  <2>3. UNCHANGED <<store, coll, filter, page, full, walk>>
    BY <1>6 DEF FindFails, WriteFails
  <2> QED
    BY <2>2, <2>3, WalkFrame DEF Only
<1> QED
  BY <1>1, <1>2, <1>3, <1>4, <1>5, <1>6, WalkAsks, WalkPageComes, WalkEnds DEF MongoNext

\* Who turns the pages to the last one has seen every match.
LEMMA WalkSees ==
  ASSUME MongoInv, WalkInv
  PROVE  WalkSeesEveryMatch
<1> SUFFICES ASSUME walk # None, ~vague, ~full, coll # None, NEW i \in store[coll] \cap filter
             PROVE  i \in walk
  BY DEF WalkSeesEveryMatch
<1>1. coll \in Colls /\ page \in Nat /\ Matches \in SUBSET Ids
  BY DEF MongoInv, MongoTypeOK, Matches
<1>2. WalkIsComplete /\ Cardinality(Page(Matches, page)) # PageSize
  BY DEF WalkInv, WalkIsComplete
<1>3. Rank(Matches, i) <= (page + 1) * PageSize
  BY <1>1, <1>2, LastPage DEF Matches
<1> QED
  BY <1>2, <1>3 DEF WalkIsComplete, Matches

-----------------------------------------------------------------------------
(***************************************************************************)
(* The view of a Redis tab.                                                *)
(***************************************************************************)
RedisRequest(c) ==
    \/ pc[c] = "idle"
    \/ op[c] = "rename" /\ pc[c] = "checked" /\ arg[c].from \in Keys /\ arg[c].to \in Keys
    \/ /\ pc[c] \in {"sent", "served"}
       /\ \/ /\ op[c] = "scan"
             /\ arg[c].mode \in {"replace", "append"}
             /\ arg[c].pattern \in Patterns /\ arg[c].cursor \in {0, 1}
             /\ pc[c] = "served" => ans[c] \subseteq Keys
          \/ op[c] \in {"deleteTicked", "remove"} /\ arg[c].keys \subseteq Keys
          \/ op[c] = "save" /\ arg[c].key \in Keys /\ arg[c].data \in Keys \cup {Blank}
          \/ op[c] = "rename" /\ arg[c].from \in Keys /\ arg[c].to \in Keys

\* What has been read, and the text in the editor, belong to the open key; a
\* flag of the panel is set while the panel is there.
Panel ==
    /\ orphans \subseteq Pending("save") \cup Pending("rename") \cup Pending("remove")
    /\ renaming \/ removing => openKey # None
    /\ reading \in Value => openKey \in Keys /\ reading.key = openKey
    /\ text # None => text = reading

RedisInv ==
    /\ Shape
    /\ RedisTypeOK
    /\ RedisFlagsAccountedFor
    /\ \A c \in Calls : RedisRequest(c)
    /\ Panel
    /\ SavesHitTheirKey

-----------------------------------------------------------------------------
\* What the panel knows once the key k is shown.
Shows(k, left) ==
    /\ openKey' = k
    /\ \/ /\ k = openKey
          /\ UNCHANGED <<reading, text, saving, renaming, removing>>
          /\ orphans' = orphans \ left
       \/ /\ k # openKey
          /\ reading' = (IF k = None THEN None ELSE Loading) /\ reading' \notin Value
          /\ text' = None /\ saving' = FALSE
          /\ renaming' => renaming /\ k # None
          /\ removing' => removing /\ k # None
          /\ orphans' = (orphans \cup Pending("save")
                         \cup IF k = None THEN Pending("rename") \cup Pending("remove")
                              ELSE {}) \ left
    /\ reading' \in Value \cup {None, Loading} /\ text' \in Value \cup {None}
    /\ {saving', renaming', removing'} \subseteq BOOLEAN
    /\ orphans' \subseteq Calls
    /\ reading' \in Value => k \in Keys /\ reading'.key = k
    /\ text' # None => text' = reading'
    /\ renaming' \/ removing' => k # None

LEMMA ShowKeyFacts ==
  ASSUME RedisInv, NEW k \in Keys \cup {None}, NEW left, ShowKey(k, left)
  PROVE  Shows(k, left)
<1> USE DEF RedisInv, RedisTypeOK, Panel, Shows
<1>1. Loading \notin Value /\ None \notin Value
  BY RedisAssumption, RedisNoneAssumption DEF Loading, Value
<1>2. CASE k = openKey
  BY <1>1, <1>2 DEF ShowKey
<1>3. CASE k # openKey
  BY <1>1, <1>3 DEF ShowKey, Pending, Out
<1> QED
  BY <1>2, <1>3

\* A request that counts for the panel goes on counting.
LEMMA StillCounts ==
  ASSUME NEW c \in Calls, Only(c), NEW o,
         o # op[c] \/ pc[c] = "idle" \/ c \in orphans \/ (pc'[c] # "idle" /\ op'[c] = op[c]),
         orphans' \cap Pending(o) \subseteq orphans,
         Pending(o) \ orphans # {}
  PROVE  Pending(o)' \ orphans' # {}
  BY DEF Only, Pending, Out

LEMMA RedisClick ==
  ASSUME RedisInv,
         \/ \E p \in Patterns : EditPattern(p)
         \/ \E k \in Keys : Tick(k) \/ OpenKey(k)
         \/ ReadValue \/ ShowValue \/ ReadFails
  PROVE  RedisInv'
<1> USE DEF RedisInv, requestVars, listVars, tickVars, panelVars
<1>1. UNCHANGED <<op, pc, arg, ans, db, listed, cursor, scanned, scanning, found, deleting, erased>>
      /\ vague' \in BOOLEAN
  BY DEF EditPattern, Tick, OpenKey, ReadValue, ShowValue, ReadFails, Shape
<1>2. Shape' /\ (\A c \in Calls : RedisRequest(c)') /\ SavesHitTheirKey'
  BY <1>1 DEF Shape, RedisRequest, SavesHitTheirKey, Pending, Out
<1>3. \A o : Pending(o)' = Pending(o)
  BY <1>1 DEF Pending, Out
<1>4. CASE (\E p \in Patterns : EditPattern(p)) \/ \E k \in Keys : Tick(k)
  <2>1. pattern' \in Patterns /\ ticked' \subseteq Keys
    BY <1>4 DEF EditPattern, Tick, RedisTypeOK
  <2>2. UNCHANGED panelVars
    BY <1>4 DEF EditPattern, Tick
  <2>3. RedisTypeOK'
    BY <1>1, <2>1, <2>2 DEF RedisTypeOK
  <2>4. RedisFlagsAccountedFor' /\ Panel'
    BY <1>1, <1>3, <2>2 DEF RedisFlagsAccountedFor, Panel
  <2> QED
    BY <1>2, <2>3, <2>4
<1>5. ASSUME NEW k \in Keys, OpenKey(k)
      PROVE  RedisInv'
  <2>1. ShowKey(k, {}) /\ k # openKey /\ UNCHANGED <<pattern, ticked>>
    BY <1>5 DEF OpenKey
  <2>2. /\ openKey' = k
        /\ saving' = FALSE
        /\ renaming' \in BOOLEAN /\ (renaming' => renaming)
        /\ removing' \in BOOLEAN /\ (removing' => removing)
        /\ orphans' = orphans \cup Pending("save") /\ orphans' \subseteq Calls
        /\ reading' \in Value \cup {None, Loading} /\ text' \in Value \cup {None}
        /\ reading' \in Value => k \in Keys /\ reading'.key = k
        /\ text' # None => text' = reading'
        /\ renaming' \/ removing' => k # None
    <3>1. Shows(k, {})
      BY <2>1, ShowKeyFacts
    <3> QED
      BY <2>1, <3>1, RedisAssumption DEF Shows
  <2>3. RedisTypeOK'
    BY <1>1, <2>1, <2>2 DEF RedisTypeOK
  <2>4. Panel'
    BY <1>3, <2>2 DEF Panel
  <2>5. Pending("save") \cap Pending("rename") = {} /\ Pending("save") \cap Pending("remove") = {}
    BY DEF Pending
  <2>6. RedisFlagsAccountedFor'
    BY <1>1, <1>3, <2>2, <2>5 DEF RedisFlagsAccountedFor
  <2> QED
    BY <1>2, <2>3, <2>4, <2>6
<1>6. CASE ReadValue \/ ShowValue \/ ReadFails
  <2>1. UNCHANGED <<pattern, ticked, openKey, saving, renaming, removing, orphans>>
    BY <1>6 DEF ReadValue, ShowValue, ReadFails
  <2>2. /\ reading' \in Value \cup {None, Loading} /\ text' \in Value \cup {None}
        /\ reading' \in Value => openKey \in Keys /\ reading'.key = openKey
        /\ text' # None => text' = reading'
    <3>1. CASE ReadValue
      BY <3>1, RedisNoneAssumption DEF ReadValue, LoadOut, RedisTypeOK, Panel, Value
    <3>2. CASE ShowValue
      BY <3>2 DEF ShowValue, RedisTypeOK, Panel
    <3>3. CASE ReadFails
      BY <3>3, RedisNoneAssumption DEF ReadFails, LoadOut, RedisTypeOK, Panel, Value
    <3> QED
      BY <1>6, <3>1, <3>2, <3>3
  <2>3. RedisTypeOK'
    BY <1>1, <2>1, <2>2 DEF RedisTypeOK
  <2>4. RedisFlagsAccountedFor' /\ Panel'
    BY <1>1, <1>3, <2>1, <2>2 DEF RedisFlagsAccountedFor, Panel
  <2> QED
    BY <1>2, <2>3, <2>4
<1> QED
  BY <1>4, <1>5, <1>6

\* What a request is sent with, and the flag that its handler raises.
AskFits(o, a) ==
    \/ /\ o = "scan"
       /\ a.mode \in {"replace", "append"} /\ a.pattern \in Patterns /\ a.cursor \in {0, 1}
       /\ scanning' = TRUE /\ UNCHANGED <<deleting, saving, renaming, removing>>
    \/ /\ o = "deleteTicked" /\ a.keys \subseteq Keys
       /\ deleting' = TRUE /\ UNCHANGED <<scanning, saving, renaming, removing>>
    \/ /\ o = "save" /\ a.key \in Keys /\ a.data \in Keys \cup {Blank} /\ a.from = a.key
       /\ saving' = TRUE /\ UNCHANGED <<scanning, deleting, renaming, removing>>
    \/ /\ o = "remove" /\ a.keys \subseteq Keys /\ openKey # None
       /\ removing' = TRUE /\ UNCHANGED <<scanning, deleting, saving, renaming>>
    \/ /\ o = "rename" /\ a.from \in Keys /\ a.to \in Keys /\ openKey # None
       /\ renaming' = TRUE /\ UNCHANGED <<scanning, deleting, saving, removing>>

LEMMA RedisAsks ==
  ASSUME RedisInv, NEW c \in Calls,
         \/ \E mode \in {"replace", "append"} : SendScan(c, mode)
         \/ DeleteTicked(c) \/ Save(c) \/ RemoveKey(c) \/ \E k \in Keys : Rename(c, k)
  PROVE  RedisInv'
<1> USE DEF RedisInv, listVars, tickVars, panelVars
<1>1. LoadOut \in BOOLEAN
  BY DEF LoadOut
<1>2. PICK o, a, b : b \in BOOLEAN /\ Send(c, o, a, b) /\ AskFits(o, a)
  <2>1. ASSUME NEW mode \in {"replace", "append"}, SendScan(c, mode)
        PROVE  \E o, x, b : b \in BOOLEAN /\ Send(c, o, x, b) /\ AskFits(o, x)
    <3> DEFINE a == [mode |-> mode, pattern |-> pattern,
                     cursor |-> IF mode = "replace" THEN 0 ELSE cursor]
    <3>1. Send(c, "scan", a, LoadOut) /\ scanning' = TRUE
          /\ UNCHANGED <<deleting, saving, renaming, removing>>
      BY <2>1 DEF SendScan
    <3>2. a.mode \in {"replace", "append"} /\ a.pattern \in Patterns /\ a.cursor \in {0, 1}
      BY DEF RedisTypeOK
    <3>3. AskFits("scan", a)
      BY <3>1, <3>2 DEF AskFits
    <3> HIDE DEF a
    <3> QED
      BY <1>1, <3>1, <3>3
  <2>2. CASE DeleteTicked(c)
    <3> DEFINE a == [keys |-> ticked, open |-> openKey]
    <3>1. Send(c, "deleteTicked", a, LoadOut) /\ deleting' = TRUE
          /\ UNCHANGED <<scanning, saving, renaming, removing>>
      BY <2>2 DEF DeleteTicked
    <3>2. a.keys \subseteq Keys
      BY DEF RedisTypeOK
    <3>3. AskFits("deleteTicked", a)
      BY <3>1, <3>2 DEF AskFits
    <3> HIDE DEF a
    <3> QED
      BY <1>1, <3>1, <3>3
  <2>3. CASE Save(c)
    <3> DEFINE a == [key |-> openKey, from |-> text.key, data |-> text.data]
    <3>1. Send(c, "save", a, FALSE) /\ saving' = TRUE /\ text # None
          /\ UNCHANGED <<scanning, deleting, renaming, removing>>
      BY <2>3 DEF Save
    <3>2. a.key \in Keys /\ a.data \in Keys \cup {Blank} /\ a.from = a.key
      BY <3>1 DEF RedisTypeOK, Panel, Value
    <3>3. AskFits("save", a)
      BY <3>1, <3>2 DEF AskFits
    <3> HIDE DEF a
    <3> QED
      BY <3>1, <3>3
  <2>4. CASE RemoveKey(c)
    <3> DEFINE a == [keys |-> {openKey}]
    <3>1. Send(c, "remove", a, LoadOut) /\ removing' = TRUE /\ openKey # None
          /\ UNCHANGED <<scanning, deleting, saving, renaming>>
      BY <2>4 DEF RemoveKey
    <3>2. a.keys \subseteq Keys
      BY <3>1 DEF RedisTypeOK
    <3>3. AskFits("remove", a)
      BY <3>1, <3>2 DEF AskFits
    <3> HIDE DEF a
    <3> QED
      BY <1>1, <3>1, <3>3
  <2>5. ASSUME NEW k \in Keys, Rename(c, k)
        PROVE  \E o, x, b : b \in BOOLEAN /\ Send(c, o, x, b) /\ AskFits(o, x)
    <3> DEFINE a == [from |-> openKey, to |-> k]
    <3>1. Send(c, "rename", a, LoadOut) /\ renaming' = TRUE /\ openKey # None
          /\ UNCHANGED <<scanning, deleting, saving, removing>>
      BY <2>5 DEF Rename
    <3>2. a.from \in Keys /\ a.to \in Keys
      BY <3>1 DEF RedisTypeOK
    <3>3. AskFits("rename", a)
      BY <3>1, <3>2 DEF AskFits
    <3> HIDE DEF a
    <3> QED
      BY <1>1, <3>1, <3>3
  <2> QED
    BY <2>1, <2>2, <2>3, <2>4, <2>5
<1>3. /\ Shape' /\ Only(c)
      /\ pc[c] = "idle" /\ pc'[c] = "sent" /\ op'[c] = o /\ arg'[c] = a
  BY <1>2, SendFacts
<1>4. UNCHANGED <<db, pattern, listed, cursor, scanned, found, ticked, openKey, reading, text,
                  orphans, erased>>
  BY DEF SendScan, DeleteTicked, Save, RemoveKey, Rename
<1>5. RedisTypeOK'
  BY <1>2, <1>4 DEF AskFits, RedisTypeOK
<1>6. \A d \in Calls : RedisRequest(d)'
  BY <1>2, <1>3 DEF AskFits, RedisRequest, Only
<1>7. /\ c \in Pending(o)' \ orphans
      /\ \A p : Pending(p) \subseteq Pending(p)'
  <2>1. \A p : Pending(p) \subseteq Pending(p)'
    BY <1>3, StaysPending
  <2> QED
    BY <1>3, <2>1 DEF Pending, Out, Panel
<1>8. RedisFlagsAccountedFor'
  BY <1>2, <1>4, <1>7 DEF RedisFlagsAccountedFor, AskFits
<1>9. Panel'
  <2>1. orphans' \subseteq (Pending("save") \cup Pending("rename") \cup Pending("remove"))'
    BY <1>4, <1>7 DEF Panel
  <2>2. renaming' \/ removing' => openKey' # None
    BY <1>2, <1>4 DEF Panel, AskFits
  <2> QED
    BY <1>4, <2>1, <2>2 DEF Panel
<1>10. SavesHitTheirKey'
  BY <1>2, <1>3 DEF SavesHitTheirKey, Pending, Out, Only, AskFits
<1> QED
  BY <1>3, <1>5, <1>6, <1>8, <1>9, <1>10

LEMMA RedisServed ==
  ASSUME RedisInv, NEW c \in Calls,
         \/ ServeScan(c) \/ ServeDelete(c, "deleteTicked") \/ ServeDelete(c, "remove")
         \/ ServeSave(c) \/ CheckRename(c) \/ ServeRename(c)
  PROVE  RedisInv'
<1> USE DEF RedisInv, redisVars, listVars, tickVars, panelVars
<1>1. /\ Shape' /\ Only(c) /\ UNCHANGED <<op, arg>>
      /\ pc[c] # "idle" /\ pc'[c] \in {"served", "checked"}
      /\ pc'[c] = "checked" => op[c] = "rename"
      /\ op[c] = "scan" => ans'[c] = ScanKeys(arg[c].pattern, arg[c].cursor)
  <2>1. CASE CheckRename(c)
    BY <2>1 DEF CheckRename, Shape, Only
  <2>2. CASE \/ ServeScan(c) \/ ServeDelete(c, "deleteTicked") \/ ServeDelete(c, "remove")
             \/ ServeSave(c) \/ ServeRename(c)
    <3>1. /\ Shape' /\ Only(c) /\ UNCHANGED <<op, arg>>
          /\ pc[c] \in {"sent", "checked"} /\ pc'[c] = "served"
      BY <2>2, ServeFacts DEF ServeScan, ServeDelete, ServeSave, ServeRename
    <3>2. op[c] = "scan" => ServeScan(c)
      BY <2>2 DEF ServeDelete, ServeSave, ServeRename, Serve
    <3> QED
      BY <3>1, <3>2, ServeFacts DEF ServeScan
  <2> QED
    BY <2>1, <2>2
<1>2. UNCHANGED <<listVars, tickVars, panelVars>>
  BY DEF ServeScan, ServeDelete, ServeSave, CheckRename, ServeRename
<1>3. \A d \in Calls : RedisRequest(d)'
  <2>1. op[c] = "scan" => ans'[c] \subseteq Keys
    BY <1>1 DEF ScanKeys, Existing
  <2> QED
    BY <1>1, <2>1 DEF RedisRequest, Only
<1>4. db' \in [Keys -> Keys \cup {None, Blank}] /\ erased' \subseteq Keys \cup {Blank}
  <2>1. CASE ServeScan(c) \/ CheckRename(c)
    BY <2>1 DEF ServeScan, CheckRename, RedisTypeOK
  <2>2. CASE ServeDelete(c, "deleteTicked") \/ ServeDelete(c, "remove")
    BY <2>2 DEF ServeDelete, DeleteKeys, Existing, RedisTypeOK
  <2>3. CASE ServeSave(c)
    <3>1. arg[c].key \in Keys /\ arg[c].data \in Keys \cup {Blank}
      BY <1>1, <2>3 DEF ServeSave, RedisRequest
    <3> QED
      BY <2>3, <3>1 DEF ServeSave, RedisTypeOK
  <2>4. CASE ServeRename(c)
    <3>1. arg[c].from \in Keys /\ arg[c].to \in Keys
      BY <1>1, <2>4 DEF ServeRename, RedisRequest
    <3> QED
      BY <2>4, <3>1 DEF ServeRename, RedisTypeOK
  <2> QED
    BY <2>1, <2>2, <2>3, <2>4
<1>5. RedisTypeOK'
  BY <1>2, <1>4 DEF RedisTypeOK
<1>6. \A o : Pending(o)' = Pending(o)
  BY <1>1 DEF Pending, Out, Only
<1>7. RedisFlagsAccountedFor' /\ Panel' /\ SavesHitTheirKey'
  BY <1>1, <1>2, <1>6 DEF RedisFlagsAccountedFor, Panel, SavesHitTheirKey
<1> QED
  BY <1>1, <1>3, <1>5, <1>7

\* A request ends; what is left of the panel's flags has a request of its own.
LEMMA RedisEnds ==
  ASSUME RedisInv, NEW c \in Calls, Shape', Only(c), pc[c] # "idle", pc'[c] = "idle", RedisTypeOK',
         scanning' => scanning /\ op[c] # "scan",
         deleting' => deleting /\ op[c] # "deleteTicked",
         saving' => saving /\ (op[c] # "save" \/ c \in orphans)
                    /\ orphans' \cap Pending("save") \subseteq orphans,
         renaming' => renaming /\ (op[c] # "rename" \/ c \in orphans)
                      /\ orphans' \cap Pending("rename") \subseteq orphans,
         removing' => removing /\ (op[c] # "remove" \/ c \in orphans)
                      /\ orphans' \cap Pending("remove") \subseteq orphans,
         orphans' \subseteq (orphans \cup Pending("save") \cup Pending("rename")
                             \cup Pending("remove")) \ {c},
         renaming' \/ removing' => openKey' # None,
         reading' \in Value => openKey' \in Keys /\ reading'.key = openKey',
         text' # None => text' = reading'
  PROVE  RedisInv'
<1> USE DEF RedisInv
<1>1. \A d \in Calls : RedisRequest(d)'
  BY DEF RedisRequest, Only
<1>2. \A o : Pending(o) \ {c} \subseteq Pending(o)'
  BY DEF Pending, Out, Only
<1>3. RedisFlagsAccountedFor'
  <2>1. (scanning' => Pending("scan")' # {}) /\ (deleting' => Pending("deleteTicked")' # {})
    BY OthersPending DEF RedisFlagsAccountedFor
  <2>2. /\ saving' => Pending("save")' \ orphans' # {}
        /\ renaming' => Pending("rename")' \ orphans' # {}
        /\ removing' => Pending("remove")' \ orphans' # {}
    BY StillCounts DEF RedisFlagsAccountedFor
  <2> QED
    BY <2>1, <2>2 DEF RedisFlagsAccountedFor
<1>4. Panel'
  BY <1>2 DEF Panel
<1>5. SavesHitTheirKey'
  BY DEF SavesHitTheirKey, Pending, Out, Only
<1> QED
  BY <1>1, <1>3, <1>4, <1>5

LEMMA RedisScanned ==
  ASSUME RedisInv, NEW c \in Calls, ScanAnswered(c)
  PROVE  RedisInv'
<1> USE DEF RedisInv, Panel, panelVars, listVars
<1>1. /\ Shape' /\ Only(c) /\ op[c] = "scan" /\ pc[c] = "served" /\ pc'[c] = "idle"
  BY AnsweredFacts DEF ScanAnswered
<1>2. /\ arg[c].pattern \in Patterns /\ arg[c].cursor \in {0, 1} /\ ans[c] \subseteq Keys
  BY <1>1 DEF RedisRequest
<1>3. UNCHANGED <<db, pattern, deleting, erased>> /\ scanning' = FALSE /\ scanned' = TRUE
      /\ cursor' \in {0, 1}
  BY <1>2 DEF ScanAnswered
<1>4. c \notin orphans
  BY <1>1 DEF Pending
<1>5. CASE arg[c].mode = "replace"
  <2>1. /\ listed' = ans[c] /\ found' = arg[c].pattern /\ ticked' = {} /\ ShowKey(None, {c})
    BY <1>5 DEF ScanAnswered
  <2>2. Shows(None, {c})
    BY <2>1, ShowKeyFacts
  <2>3. RedisTypeOK'
    BY <1>2, <1>3, <2>1, <2>2 DEF RedisTypeOK, Shows
  <2> QED
    BY <1>1, <1>3, <1>4, <2>2, <2>3, RedisEnds DEF Shows
<1>6. CASE arg[c].mode # "replace"
  <2>1. /\ listed' = listed \cup ans[c] /\ found' \in {found, None}
        /\ UNCHANGED <<ticked, panelVars>>
    BY <1>6 DEF ScanAnswered
  <2>2. RedisTypeOK'
    BY <1>2, <1>3, <2>1 DEF RedisTypeOK
  <2> QED
    BY <1>1, <1>3, <1>4, <2>1, <2>2, RedisEnds
<1> QED
  BY <1>5, <1>6

LEMMA RedisDeleted ==
  ASSUME RedisInv, NEW c \in Calls, TickedDeleted(c) \/ Removed(c)
  PROVE  RedisInv'
<1> USE DEF RedisInv, Panel
<1>1. /\ Shape' /\ Only(c) /\ op[c] \in {"deleteTicked", "remove"}
      /\ pc[c] # "idle" /\ pc'[c] = "idle"
  BY AnsweredFacts DEF TickedDeleted, Removed
<1>2. c \notin orphans \/ op[c] = "remove"
  BY <1>1 DEF Pending
<1>3. CASE TickedDeleted(c)
  <2>1. PICK k \in Keys \cup {None} : ShowKey(k, {c})
    BY <1>3 DEF TickedDeleted, RedisTypeOK
  <2>2. /\ listed' \subseteq Keys /\ ticked' = {} /\ deleting' = FALSE
        /\ UNCHANGED <<db, pattern, cursor, scanned, scanning, found, erased>>
    BY <1>3 DEF TickedDeleted, RedisTypeOK
  <2>6. Shows(k, {c})
    BY <2>1, ShowKeyFacts
  <2>3. RedisTypeOK'
    BY <2>2, <2>6 DEF RedisTypeOK, Shows
  <2>4. op[c] = "deleteTicked" /\ c \notin orphans
    BY <1>2, <1>3, AnsweredFacts DEF TickedDeleted
  <2>5. \A o \in {"rename", "remove"} : Pending("save") \cap Pending(o) = {}
    BY DEF Pending
  <2> QED
    BY <1>1, <2>2, <2>3, <2>4, <2>5, <2>6, RedisEnds DEF Shows
<1>4. CASE Removed(c)
  <2>1. ShowKey(None, {c})
    BY <1>4 DEF Removed
  <2>2. /\ listed' \subseteq Keys /\ ticked' \subseteq Keys
        /\ UNCHANGED <<db, pattern, cursor, scanned, scanning, found, deleting, erased>>
    BY <1>4 DEF Removed, RedisTypeOK
  <2>5. Shows(None, {c})
    BY <2>1, ShowKeyFacts
  <2>3. RedisTypeOK'
    BY <2>2, <2>5 DEF RedisTypeOK, Shows
  <2>4. op[c] = "remove"
    BY <1>4, AnsweredFacts DEF Removed
  <2> QED
    BY <1>1, <2>2, <2>3, <2>4, <2>5, RedisEnds DEF Shows
<1> QED
  BY <1>3, <1>4

LEMMA RedisRenamed ==
  ASSUME RedisInv, NEW c \in Calls, Saved(c) \/ RenameRefused(c) \/ Renamed(c)
  PROVE  RedisInv'
<1> USE DEF RedisInv, Panel, listVars, tickVars
<1>1. CASE Saved(c)
  <2>1. /\ Shape' /\ Only(c) /\ op[c] = "save" /\ pc[c] # "idle" /\ pc'[c] = "idle"
    BY <1>1, AnsweredFacts DEF Saved
  <2>2. /\ UNCHANGED <<db, listVars, tickVars, openKey, reading, text, renaming, removing, erased>>
        /\ saving' = (saving /\ c \in orphans) /\ orphans' = orphans \ {c}
    BY <1>1 DEF Saved
  <2>3. RedisTypeOK'
    BY <2>2 DEF RedisTypeOK
  <2> QED
    BY <2>1, <2>2, <2>3, RedisEnds
<1>2. CASE RenameRefused(c)
  <2>1. /\ Shape' /\ Only(c) /\ op[c] = "rename" /\ pc[c] # "idle" /\ pc'[c] = "idle"
    BY <1>2 DEF RenameRefused, Return, Shape, Only
  <2>2. /\ UNCHANGED <<db, listVars, tickVars, openKey, reading, text, saving, removing, erased>>
        /\ renaming' = (renaming /\ c \in orphans) /\ orphans' = orphans \ {c}
    BY <1>2 DEF RenameRefused
  <2>3. RedisTypeOK'
    BY <2>2 DEF RedisTypeOK
  <2> QED
    BY <2>1, <2>2, <2>3, RedisEnds
<1>3. CASE Renamed(c)
  <2>1. /\ Shape' /\ Only(c) /\ op[c] = "rename" /\ pc[c] = "served" /\ pc'[c] = "idle"
    BY <1>3, AnsweredFacts DEF Renamed
  <2>2. arg[c].from \in Keys /\ arg[c].to \in Keys
    BY <2>1 DEF RedisRequest
  <2>3. /\ UNCHANGED <<db, pattern, cursor, scanned, scanning, found, tickVars, removing, erased>>
        /\ listed' \subseteq Keys /\ openKey' = arg[c].to
        /\ renaming' = (renaming /\ c \in orphans)
    BY <1>3, <2>2 DEF Renamed, RedisTypeOK
  <2>4. None \notin Keys /\ None \notin Value /\ Loading \notin Value
    BY RedisAssumption, RedisNoneAssumption DEF Loading, Value
  <2>5. \A o \in {"rename", "remove"} : Pending("save") \cap Pending(o) = {}
    BY DEF Pending
  <2>6. /\ \/ UNCHANGED <<reading, text, saving>> /\ openKey' = openKey /\ orphans' = orphans \ {c}
           \/ /\ reading' = Loading /\ text' = None /\ saving' = FALSE
              /\ orphans' = (orphans \cup Pending("save")) \ {c}
        /\ orphans' \subseteq Calls
    BY <1>3 DEF Renamed, RedisTypeOK, Pending, Out
  <2>7. RedisTypeOK'
    BY <2>2, <2>3, <2>6 DEF RedisTypeOK
  <2>8. /\ reading' \in Value => openKey' \in Keys /\ reading'.key = openKey'
        /\ text' # None => text' = reading'
    BY <2>4, <2>6
  <2>9. orphans' \subseteq (orphans \cup Pending("save")) \ {c}
    BY <2>6
  <2>10. openKey' # None
    BY <2>2, <2>3, <2>4
  <2>11. \A o \in {"rename", "remove"} : orphans' \cap Pending(o) \subseteq orphans
    BY <2>5, <2>9
  <2>12. saving' => saving /\ orphans' \cap Pending("save") \subseteq orphans
    BY <2>6
  <2> QED
    BY <2>1, <2>3, <2>7, <2>8, <2>9, <2>10, <2>11, <2>12, RedisEnds
<1> QED
  BY <1>1, <1>2, <1>3

LEMMA RedisFailed ==
  ASSUME RedisInv, NEW c \in Calls, RedisFails(c)
  PROVE  RedisInv'
<1> USE DEF RedisInv, Panel
<1>1. /\ Shape' /\ Only(c) /\ pc[c] # "idle" /\ pc'[c] = "idle"
  BY FailedFacts DEF RedisFails
<1>2. /\ UNCHANGED <<db, pattern, listed, cursor, scanned, found, ticked, openKey, reading, text,
                     erased>>
      /\ orphans' = orphans \ {c}
      /\ scanning' = (scanning /\ op[c] # "scan")
      /\ deleting' = (deleting /\ op[c] # "deleteTicked")
      /\ saving' = (saving /\ (op[c] # "save" \/ c \in orphans))
      /\ renaming' = (renaming /\ (op[c] # "rename" \/ c \in orphans))
      /\ removing' = (removing /\ (op[c] # "remove" \/ c \in orphans))
  BY DEF RedisFails
<1>3. RedisTypeOK'
  BY <1>2 DEF RedisTypeOK
<1> QED
  BY <1>1, <1>2, <1>3, RedisEnds

LEMMA RedisStep == RedisInv /\ RedisNext => RedisInv'
  BY RedisClick, RedisAsks, RedisServed, RedisScanned, RedisDeleted, RedisRenamed, RedisFailed
     DEF RedisNext

-----------------------------------------------------------------------------
(***************************************************************************)
(* The data of a Redis database, as long as requests neither cross nor     *)
(* fail: what is on screen, or in a request, is what the server has, but   *)
(* for what the one request that is out has just changed.                  *)
(***************************************************************************)
GoneBy(c, k) ==
    /\ pc[c] = "served"
    /\ \/ op[c] \in {"deleteTicked", "remove"} /\ k \in arg[c].keys
       \/ op[c] = "rename" /\ k = arg[c].from

ComeBy(c, k) == pc[c] = "served" /\ op[c] = "rename" /\ k = arg[c].to

RequestFits(c) ==
    /\ op[c] = "scan" =>
          /\ arg[c].cursor = IF arg[c].mode = "replace" THEN 0 ELSE cursor
          /\ arg[c].mode = "append" => cursor = 1
          /\ pc[c] = "served" => ans[c] = ScanKeys(arg[c].pattern, arg[c].cursor)
    /\ op[c] = "deleteTicked" => arg[c].open = openKey
    /\ op[c] = "remove" => openKey \in Keys /\ arg[c].keys = {openKey}
    /\ op[c] \in {"deleteTicked", "remove"} /\ pc[c] = "served" =>
          arg[c].keys \cap Existing = {}
    /\ op[c] = "rename" =>
          /\ arg[c].from = openKey /\ arg[c].to # arg[c].from
          /\ pc[c] = "checked" => db[arg[c].to] = None
          /\ pc[c] = "served" => arg[c].from \notin Existing /\ arg[c].to \in Existing
    /\ op[c] = "save" => text \in Value /\ arg[c].key = text.key /\ arg[c].data = text.data

\* The keys that the pages read so far cover.
Covered == IF cursor = 0 THEN Keys ELSE Early

Faithful ==
    /\ \A c, d \in Out : c = d
    /\ Out # {} => ~LoadOut
    /\ \A c \in Out : RequestFits(c)
    /\ reading \in Value =>
          db[openKey] = reading.data \/ \E c \in Out : GoneBy(c, openKey)
    /\ \A k \in listed : k \in Existing \/ \E c \in Out : GoneBy(c, k)
    /\ openKey # None => openKey \in listed
    /\ found # None => \A k \in found \cap Covered \cap Existing :
                          k \in listed \/ \E c \in Out : ComeBy(c, k)
    /\ \A k \in Keys : k \in erased \/ \E l \in Keys : db[l] = k

LEMMA FaithfulClick ==
  ASSUME RedisInv, Faithful, ~vague',
         \/ \E p \in Patterns : EditPattern(p)
         \/ \E k \in Keys : Tick(k) \/ OpenKey(k)
         \/ ReadValue \/ ShowValue \/ ReadFails
  PROVE  Faithful'
<1> USE DEF RedisInv, requestVars, listVars, tickVars, panelVars
<1>1. /\ UNCHANGED <<op, pc, arg, ans, db, listed, cursor, scanned, found, erased>>
      /\ Out' = Out /\ Existing' = Existing /\ Covered' = Covered
      /\ \A c, k : (GoneBy(c, k)' <=> GoneBy(c, k)) /\ (ComeBy(c, k)' <=> ComeBy(c, k))
  BY DEF EditPattern, Tick, OpenKey, ReadValue, ShowValue, ReadFails, Out, GoneBy, ComeBy,
     Existing, Covered
<1>2. CASE (\E p \in Patterns : EditPattern(p)) \/ \E k \in Keys : Tick(k)
  <2>1. UNCHANGED panelVars
    BY <1>2 DEF EditPattern, Tick
  <2>2. \A c : RequestFits(c)' <=> RequestFits(c)
    BY <1>1, <2>1 DEF RequestFits, ScanKeys, Existing
  <2> QED
    BY <1>1, <2>1, <2>2 DEF Faithful, LoadOut
<1>3. ASSUME NEW k \in Keys, OpenKey(k)
      PROVE  Faithful'
  <2>1. Out = {} /\ k \in listed
    BY <1>3 DEF OpenKey
  <2>2. openKey' = k /\ reading' \notin Value
    <3>1. Shows(k, {}) /\ k # openKey
      BY <1>3, ShowKeyFacts DEF OpenKey
    <3> QED
      BY <3>1 DEF Shows
  <2> QED
    BY <1>1, <2>1, <2>2 DEF Faithful
<1>4. CASE ReadValue
  <2>1. /\ Out = {} /\ openKey \in Keys
        /\ UNCHANGED <<openKey, text>>
        /\ reading' \in Value => reading'.data = db[openKey]
    BY <1>4, RedisNoneAssumption DEF ReadValue, LoadOut, RedisTypeOK, Faithful
  <2> QED
    BY <1>1, <2>1 DEF Faithful
<1>5. CASE ShowValue
  <2>1. UNCHANGED <<openKey, reading>> /\ text = None /\ reading # Loading
    BY <1>5 DEF ShowValue
  <2>2. \A c \in Out : RequestFits(c)'
    BY <1>1, <2>1, RedisNoneAssumption DEF Faithful, RequestFits, ScanKeys
  <2> QED
    BY <1>1, <2>1, <2>2 DEF Faithful, LoadOut
<1>6. CASE ReadFails
  BY <1>6 DEF ReadFails
<1> QED
  BY <1>2, <1>3, <1>4, <1>5, <1>6

LEMMA FaithfulAsks ==
  ASSUME RedisInv, ~vague => Faithful, ~vague', NEW c \in Calls,
         \/ \E mode \in {"replace", "append"} : SendScan(c, mode)
         \/ DeleteTicked(c) \/ Save(c) \/ RemoveKey(c) \/ \E k \in Keys : Rename(c, k)
  PROVE  Faithful'
<1> USE DEF RedisInv, listVars, tickVars, panelVars
<1>1. UNCHANGED <<db, pattern, listed, cursor, scanned, found, ticked, openKey, reading, text,
                  orphans, erased>>
  BY DEF SendScan, DeleteTicked, Save, RemoveKey, Rename
<1>2. LoadOut \in BOOLEAN
  BY DEF LoadOut
<1>3. \E o, a, b : b \in BOOLEAN /\ Send(c, o, a, b)
  BY <1>2 DEF SendScan, DeleteTicked, Save, RemoveKey, Rename
<1>4. /\ Shape' /\ Only(c) /\ pc[c] = "idle" /\ pc'[c] = "sent" /\ ~vague /\ Out = {}
  BY <1>3, SendFacts
<1>5. Out' = {c} /\ Faithful
  BY <1>4 DEF Out, Only
<1>6. ~LoadOut
  <2>1. CASE Save(c)
    BY <2>1 DEF Save, LoadOut
  <2>2. CASE ~Save(c)
    BY <1>2, <2>2, SendFacts DEF SendScan, DeleteTicked, RemoveKey, Rename
  <2> QED
    BY <2>1, <2>2
<1>7. RequestFits(c)'
  <2>1. ASSUME NEW mode \in {"replace", "append"}, SendScan(c, mode)
        PROVE  RequestFits(c)'
    <3> DEFINE a == [mode |-> mode, pattern |-> pattern,
                     cursor |-> IF mode = "replace" THEN 0 ELSE cursor]
    <3>1. Send(c, "scan", a, LoadOut) /\ (mode = "append" => cursor # 0)
      BY <2>1 DEF SendScan, CanLoadMore
    <3>2. op'[c] = "scan" /\ arg'[c] = a
      BY <1>2, <3>1, SendFacts
    <3> QED
      BY <1>1, <1>4, <3>1, <3>2 DEF RequestFits, RedisTypeOK
  <2>2. CASE DeleteTicked(c)
    <3>1. op'[c] = "deleteTicked" /\ arg'[c].open = openKey
      BY <1>2, <2>2, SendFacts DEF DeleteTicked
    <3> QED
      BY <1>1, <1>4, <3>1 DEF RequestFits
  <2>3. CASE Save(c)
    <3> DEFINE a == [key |-> openKey, from |-> text.key, data |-> text.data]
    <3>3. Send(c, "save", a, FALSE) /\ text # None
      BY <2>3 DEF Save
    <3>4. a.key = openKey /\ a.data = text.data
      OBVIOUS
    <3> HIDE DEF a
    <3>5. op'[c] = "save" /\ arg'[c] = a
      BY <3>3, SendFacts
    <3>1. /\ op'[c] = "save" /\ arg'[c].key = openKey /\ arg'[c].data = text.data /\ text # None
      BY <3>3, <3>4, <3>5
    <3>2. text \in Value /\ text.key = openKey
      BY <3>1 DEF RedisTypeOK, Panel
    <3> QED
      BY <1>1, <3>1, <3>2 DEF RequestFits
  <2>4. CASE RemoveKey(c)
    <3>1. op'[c] = "remove" /\ arg'[c].keys = {openKey} /\ openKey \in Keys
      BY <1>2, <2>4, SendFacts DEF RemoveKey, RedisTypeOK
    <3> QED
      BY <1>1, <1>4, <3>1 DEF RequestFits
  <2>5. ASSUME NEW k \in Keys, Rename(c, k)
        PROVE  RequestFits(c)'
    <3>1. op'[c] = "rename" /\ arg'[c].from = openKey /\ arg'[c].to = k /\ k # openKey
      BY <1>2, <2>5, SendFacts DEF Rename
    <3> QED
      BY <1>1, <1>4, <3>1 DEF RequestFits
  <2> QED
    BY <2>1, <2>2, <2>3, <2>4, <2>5
<1>8. LoadOut' = LoadOut /\ Existing' = Existing /\ Covered' = Covered
  BY <1>1 DEF LoadOut, Existing, Covered
<1> QED
  BY <1>1, <1>4, <1>5, <1>6, <1>7, <1>8 DEF Faithful

\* The request that is out is carried out.
LEMMA FaithfulServed ==
  ASSUME RedisInv, Faithful, NEW c \in Calls,
         \/ ServeScan(c) \/ ServeDelete(c, "deleteTicked") \/ ServeDelete(c, "remove")
         \/ ServeSave(c) \/ CheckRename(c) \/ ServeRename(c)
  PROVE  Faithful'
<1> USE DEF RedisInv, redisVars, listVars, tickVars, panelVars
<1>1. UNCHANGED <<listVars, tickVars, panelVars>>
  BY DEF ServeScan, ServeDelete, ServeSave, CheckRename, ServeRename
<1>2. /\ Only(c) /\ UNCHANGED <<op, arg>>
      /\ pc[c] \in {"sent", "checked"} /\ pc'[c] \in {"served", "checked"}
  BY ServeFacts DEF ServeScan, ServeDelete, ServeSave, ServeRename, CheckRename, Shape, Only
<1>3. c \in Out /\ Out = {c} /\ Out' = {c} /\ RequestFits(c) /\ ~LoadOut /\ ~LoadOut'
  <2>1. c \in Out /\ Out' = Out
    BY <1>2 DEF Out, Only
  <2> QED
    BY <1>1, <2>1 DEF Faithful, LoadOut
<1>4. \A k : ~GoneBy(c, k) /\ ~ComeBy(c, k)
  BY <1>2 DEF GoneBy, ComeBy
<1>5. /\ reading \in Value => openKey \in Keys /\ db[openKey] = reading.data
      /\ listed \subseteq Existing
      /\ openKey # None => openKey \in listed
      /\ found # None => found \cap Covered \cap Existing \subseteq listed
      /\ \A k \in Keys : k \in erased \/ \E l \in Keys : db[l] = k
  BY <1>3, <1>4 DEF Faithful, Panel
<1>6. Covered' = Covered /\ openKey' = openKey
  BY <1>1 DEF Covered
<1>7. CASE ServeScan(c)
  <2>1. /\ UNCHANGED <<db, erased>> /\ op[c] = "scan" /\ pc'[c] = "served"
        /\ ans'[c] = ScanKeys(arg[c].pattern, arg[c].cursor)
    BY <1>7, ServeFacts DEF ServeScan
  <2>2. Existing' = Existing
    BY <2>1 DEF Existing
  <2>3. RequestFits(c)'
    BY <1>1, <1>2, <1>3, <2>1, <2>2 DEF RequestFits, ScanKeys
  <2> QED
    BY <1>1, <1>3, <1>5, <1>6, <2>1, <2>2, <2>3 DEF Faithful
<1>8. CASE ServeDelete(c, "deleteTicked") \/ ServeDelete(c, "remove")
  <2>1. /\ op[c] \in {"deleteTicked", "remove"} /\ pc'[c] = "served"
        /\ db' = DeleteKeys(arg[c].keys)
        /\ erased' = erased \cup {db[k] : k \in arg[c].keys \cap Existing}
    BY <1>8, ServeFacts DEF ServeDelete
  <2>2. \A k \in Keys : k \in arg[c].keys => GoneBy(c, k)'
    BY <1>2, <2>1 DEF GoneBy
  <2>3. \A k \in Keys : k \notin arg[c].keys => db'[k] = db[k]
    BY <2>1 DEF DeleteKeys
  <2>4. Existing' \subseteq Existing /\ \A k \in Existing : k \in arg[c].keys \/ k \in Existing'
    BY <2>1, <2>3 DEF Existing, DeleteKeys
  <2>5. RequestFits(c)'
    <3>1. arg[c].keys \cap Existing' = {}
      BY <2>1 DEF Existing, DeleteKeys
    <3> QED
      BY <1>1, <1>2, <1>3, <2>1, <3>1 DEF RequestFits
  <2>6. \A k \in Keys : k \in erased' \/ \E l \in Keys : db'[l] = k
    <3> SUFFICES ASSUME NEW k \in Keys, k \notin erased'
                 PROVE  \E l \in Keys : db'[l] = k
      OBVIOUS
    <3>1. PICK l \in Keys : db[l] = k
      BY <1>5, <2>1
    <3>2. l \in Existing /\ l \notin arg[c].keys
      BY <2>1, <3>1, RedisAssumption DEF Existing
    <3> QED
      BY <2>3, <3>1, <3>2
  <2>7. listed \subseteq Keys
    BY DEF RedisTypeOK
  <2> QED
    BY <1>1, <1>3, <1>5, <1>6, <2>2, <2>3, <2>4, <2>5, <2>6, <2>7 DEF Faithful
<1>9. CASE ServeSave(c)
  <2>1. op[c] = "save" /\ pc'[c] = "served" /\ db' = [db EXCEPT ![arg[c].key] = arg[c].data]
        /\ UNCHANGED erased
    BY <1>9, ServeFacts DEF ServeSave
  <2>2. text \in Value /\ arg[c].key = openKey /\ arg[c].data = reading.data /\ reading \in Value
    BY <1>3, <2>1, RedisNoneAssumption DEF RequestFits, Panel
  <2>3. db' = db
    BY <1>5, <2>1, <2>2 DEF RedisTypeOK
  <2>4. RequestFits(c)' /\ Existing' = Existing
    BY <1>1, <1>2, <1>3, <2>1, <2>3 DEF RequestFits, Existing
  <2> QED
    BY <1>1, <1>3, <1>5, <1>6, <2>1, <2>3, <2>4 DEF Faithful
<1>10. CASE CheckRename(c)
  <2>1. op[c] = "rename" /\ pc'[c] = "checked" /\ db[arg[c].to] = None /\ UNCHANGED <<db, erased>>
    BY <1>10 DEF CheckRename, Shape
  <2>2. RequestFits(c)' /\ Existing' = Existing
    BY <1>1, <1>2, <1>3, <2>1 DEF RequestFits, Existing
  <2> QED
    BY <1>1, <1>3, <1>5, <1>6, <2>1, <2>2 DEF Faithful
<1>11. CASE ServeRename(c)
  <2> DEFINE f == arg[c].from
             t == arg[c].to
  <2>1. /\ op[c] = "rename" /\ pc[c] = "checked" /\ pc'[c] = "served" /\ db[f] # None
        /\ db' = [db EXCEPT ![t] = db[f], ![f] = None] /\ UNCHANGED erased
    BY <1>11, ServeFacts DEF ServeRename
  <2>2. f \in Keys /\ t \in Keys /\ f = openKey /\ f # t /\ db[t] = None
    BY <1>2, <1>3, <2>1 DEF RedisRequest, RequestFits
  <2>3. \A k \in Keys : db'[k] = IF k = f THEN None ELSE IF k = t THEN db[f] ELSE db[k]
    BY <2>1, <2>2 DEF RedisTypeOK
  <2>4. Existing' = (Existing \ {f}) \cup {t}
    BY <2>1, <2>2, <2>3 DEF Existing
  <2>5. (\A k : k = f => GoneBy(c, k)') /\ (\A k : k = t => ComeBy(c, k)')
    BY <1>2, <2>1 DEF GoneBy, ComeBy
  <2>6. RequestFits(c)'
    BY <1>1, <1>2, <1>3, <2>1, <2>2, <2>4 DEF RequestFits
  <2>7. \A k \in Keys : k \in erased' \/ \E l \in Keys : db'[l] = k
    <3> SUFFICES ASSUME NEW k \in Keys, k \notin erased
                 PROVE  \E l \in Keys : db'[l] = k
      BY <2>1
    <3>1. PICK l \in Keys : db[l] = k
      BY <1>5
    <3>2. l # t
      BY <2>2, <3>1, RedisAssumption
    <3>3. CASE l = f
      BY <2>2, <2>3, <3>1, <3>3
    <3>4. CASE l # f
      BY <2>3, <3>1, <3>2, <3>4
    <3> QED
      BY <3>3, <3>4
  <2> HIDE DEF f, t
  <2>8. \A k \in listed : k \in Existing' \/ GoneBy(c, k)'
    BY <1>5, <2>4, <2>5
  <2>9. found # None => \A k \in found \cap Covered \cap Existing' : k \in listed \/ ComeBy(c, k)'
    BY <1>5, <2>4, <2>5
  <2>10. GoneBy(c, openKey)'
    BY <1>6, <2>2, <2>5
  <2> QED
    BY <1>1, <1>3, <1>5, <1>6, <2>6, <2>7, <2>8, <2>9, <2>10 DEF Faithful
<1> QED
  BY <1>7, <1>8, <1>9, <1>10, <1>11

\* With nothing out any more, the screen shows what there is.
LEMMA FaithfulAlone ==
  ASSUME Out' = {}, UNCHANGED <<db, erased>>,
         \A k \in Keys : k \in erased \/ \E l \in Keys : db[l] = k,
         reading' \in Value => db[openKey'] = reading'.data,
         listed' \subseteq Existing,
         openKey' # None => openKey' \in listed',
         found' # None => found' \cap Covered' \cap Existing \subseteq listed'
  PROVE  Faithful'
<1>1. Existing' = Existing
  BY DEF Existing
<1> QED
  BY <1>1 DEF Faithful

LEMMA FaithfulAnswered ==
  ASSUME RedisInv, Faithful, NEW c \in Calls,
         \/ ScanAnswered(c) \/ TickedDeleted(c) \/ Removed(c)
         \/ Saved(c) \/ RenameRefused(c) \/ Renamed(c)
         \/ RedisFails(c) /\ pc[c] # "served"
  PROVE  Faithful'
<1> USE DEF RedisInv, listVars, tickVars, panelVars
<1>1. Only(c) /\ pc[c] # "idle" /\ pc'[c] = "idle" /\ UNCHANGED <<db, erased>>
  BY AnsweredFacts, FailedFacts
     DEF ScanAnswered, TickedDeleted, Removed, Saved, RenameRefused, Renamed, RedisFails,
         Shape, Return, Only
<1>2. c \in Out /\ Out = {c} /\ Out' = {}
  <2>1. c \in Out
    BY <1>1 DEF Out
  <2>2. Out = {c}
    BY <2>1 DEF Faithful
  <2> QED
    BY <1>1, <2>1, <2>2 DEF Out, Only
<1>3. /\ RequestFits(c)
      /\ reading \in Value => openKey \in Keys /\ (db[openKey] = reading.data \/ GoneBy(c, openKey))
      /\ \A k \in listed : k \in Existing \/ GoneBy(c, k)
      /\ openKey # None => openKey \in listed
      /\ found # None => \A k \in found \cap Covered \cap Existing : k \in listed \/ ComeBy(c, k)
      /\ \A k \in Keys : k \in erased \/ \E l \in Keys : db[l] = k
  BY <1>2 DEF Faithful, Panel
<1>4. None \notin Value /\ Loading \notin Value /\ None \notin Keys
  BY RedisAssumption, RedisNoneAssumption DEF Loading, Value
<1>5. CASE ScanAnswered(c)
  <2>1. op[c] = "scan" /\ pc[c] = "served" /\ cursor' = 1 - arg[c].cursor
    BY <1>5, AnsweredFacts DEF ScanAnswered
  <2>2. ans[c] = ScanKeys(arg[c].pattern, arg[c].cursor) /\ arg[c].mode \in {"replace", "append"}
        /\ arg[c].cursor = IF arg[c].mode = "replace" THEN 0 ELSE 1
    BY <1>3, <2>1 DEF RequestFits, RedisRequest
  <2>3. \A k : ~GoneBy(c, k) /\ ~ComeBy(c, k)
    BY <2>1 DEF GoneBy, ComeBy
  <2>4. CASE arg[c].mode = "replace"
    <3>1. /\ listed' = ans[c] /\ found' = arg[c].pattern /\ ShowKey(None, {c})
      BY <1>5, <2>4 DEF ScanAnswered
    <3>2. openKey' = None /\ (reading' \in Value => None \in Keys)
      BY <3>1, ShowKeyFacts DEF Shows
    <3>3. ans[c] = Early \cap Existing \cap arg[c].pattern /\ Covered' = Early
      BY <2>1, <2>2, <2>4 DEF ScanKeys, Covered
    <3> QED
      BY <1>1, <1>2, <1>3, <1>4, <3>1, <3>2, <3>3, FaithfulAlone
  <2>5. CASE arg[c].mode = "append"
    <3>1. /\ listed' = listed \cup ans[c] /\ UNCHANGED <<openKey, reading>>
          /\ found' = IF found = arg[c].pattern THEN found ELSE None
      BY <1>5, <2>5 DEF ScanAnswered
    <3>2. ans[c] = (Keys \ Early) \cap Existing \cap arg[c].pattern
      BY <2>2, <2>5 DEF ScanKeys
    <3>3. Covered = Early
      BY <1>3, <2>1, <2>5 DEF RequestFits, Covered
    <3>4. found' # None => found' = found /\ found' \cap Existing \subseteq listed'
      BY <1>3, <2>3, <3>1, <3>2, <3>3 DEF Existing
    <3> QED
      BY <1>1, <1>2, <1>3, <2>3, <3>1, <3>2, <3>4, FaithfulAlone
  <2> QED
    BY <2>2, <2>4, <2>5
<1>6. CASE TickedDeleted(c)
  <2>1. /\ op[c] = "deleteTicked" /\ pc[c] = "served"
        /\ listed' = listed \ arg[c].keys
        /\ ShowKey(IF arg[c].open \in arg[c].keys THEN None ELSE openKey, {c})
        /\ UNCHANGED <<cursor, found>>
    BY <1>6, AnsweredFacts DEF TickedDeleted
  <2>2. arg[c].keys \subseteq Keys /\ arg[c].open = openKey
    BY <1>3, <2>1 DEF RedisRequest, RequestFits
  <2>3. \A k : (GoneBy(c, k) <=> k \in arg[c].keys) /\ ~ComeBy(c, k)
    BY <2>1 DEF GoneBy, ComeBy
  <2>4. arg[c].keys \cap Existing = {}
    BY <1>3, <2>1 DEF RequestFits
  <2>5. openKey \in Keys \cup {None} /\ Covered' = Covered
    BY <2>1 DEF RedisTypeOK, Covered
  <2>6. CASE openKey \in arg[c].keys
    <3>1. openKey' = None /\ (reading' \in Value => None \in Keys)
      BY <2>1, <2>2, <2>6, ShowKeyFacts DEF Shows
    <3> QED
      BY <1>1, <1>2, <1>3, <1>4, <2>1, <2>3, <2>4, <2>5, <3>1, FaithfulAlone
  <2>7. CASE openKey \notin arg[c].keys
    <3>1. UNCHANGED <<openKey, reading>>
      BY <2>1, <2>2, <2>5, <2>7, ShowKeyFacts DEF Shows
    <3> QED
      BY <1>1, <1>2, <1>3, <2>1, <2>3, <2>4, <2>5, <2>7, <3>1, FaithfulAlone
  <2> QED
    BY <2>6, <2>7
<1>7. CASE Removed(c)
  <2>1. /\ op[c] = "remove" /\ pc[c] = "served"
        /\ listed' = listed \ arg[c].keys /\ ShowKey(None, {c})
        /\ UNCHANGED <<cursor, found>>
    BY <1>7, AnsweredFacts DEF Removed
  <2>2. arg[c].keys \subseteq Keys /\ arg[c].keys \cap Existing = {}
    BY <1>3, <2>1 DEF RedisRequest, RequestFits
  <2>3. \A k : (GoneBy(c, k) <=> k \in arg[c].keys) /\ ~ComeBy(c, k)
    BY <2>1 DEF GoneBy, ComeBy
  <2>4. openKey' = None /\ (reading' \in Value => None \in Keys) /\ Covered' = Covered
    BY <2>1, ShowKeyFacts DEF Covered, Shows
  <2> QED
    BY <1>1, <1>2, <1>3, <1>4, <2>1, <2>2, <2>3, <2>4, FaithfulAlone
<1>8. CASE Renamed(c)
  <2> DEFINE f == arg[c].from
             t == arg[c].to
  <2>1. /\ op[c] = "rename" /\ pc[c] = "served"
        /\ listed' = IF f \in listed THEN (listed \ {f}) \cup {t} ELSE listed
        /\ openKey' = t
        /\ openKey # t => reading' = Loading
        /\ UNCHANGED <<cursor, found>>
    BY <1>8, AnsweredFacts DEF Renamed
  <2>2. f \in Keys /\ f = openKey /\ t # f /\ f \notin Existing /\ t \in Existing
    BY <1>3, <2>1 DEF RedisRequest, RequestFits
  <2>3. \A k : (GoneBy(c, k) <=> k = f) /\ (ComeBy(c, k) <=> k = t)
    BY <2>1 DEF GoneBy, ComeBy
  <2> HIDE DEF f, t
  <2>4. listed' = (listed \ {f}) \cup {t} /\ reading' \notin Value /\ Covered' = Covered
    BY <1>3, <1>4, <2>1, <2>2 DEF Covered
  <2> QED
    BY <1>1, <1>2, <1>3, <2>1, <2>2, <2>3, <2>4, FaithfulAlone
<1>9. CASE Saved(c) \/ RenameRefused(c) \/ (RedisFails(c) /\ pc[c] # "served")
  <2>1. UNCHANGED <<listed, cursor, found, openKey, reading>>
    BY <1>9 DEF Saved, RenameRefused, RedisFails
  <2>2. \A k : ~GoneBy(c, k) /\ ~ComeBy(c, k)
    BY <1>9, AnsweredFacts DEF GoneBy, ComeBy, Saved, RenameRefused
  <2>3. Covered' = Covered /\ listed \subseteq Existing
    BY <1>3, <2>1, <2>2 DEF Covered
  <2> QED
    BY <1>1, <1>2, <1>3, <2>1, <2>2, <2>3, FaithfulAlone
<1> QED
  BY <1>5, <1>6, <1>7, <1>8, <1>9

LEMMA FaithfulStep ==
  ASSUME RedisInv, ~vague => Faithful, RedisNext, ~vague'
  PROVE  Faithful'
<1>1. CASE \/ \E p \in Patterns : EditPattern(p)
           \/ \E k \in Keys : Tick(k) \/ OpenKey(k)
           \/ ReadValue \/ ShowValue \/ ReadFails
  <2>1. ~vague
    BY <1>1 DEF EditPattern, Tick, OpenKey, ReadValue, ShowValue, ReadFails, RedisInv, Shape
  <2> QED
    BY <1>1, <2>1, FaithfulClick
<1>2. ASSUME NEW c \in Calls,
             \/ ServeScan(c) \/ ServeDelete(c, "deleteTicked") \/ ServeDelete(c, "remove")
             \/ ServeSave(c) \/ CheckRename(c) \/ ServeRename(c)
      PROVE  Faithful'
  <2>1. ~vague
    BY <1>2, ServeFacts
       DEF ServeScan, ServeDelete, ServeSave, CheckRename, ServeRename, RedisInv, Shape
  <2> QED
    BY <1>2, <2>1, FaithfulServed
<1>3. ASSUME NEW c \in Calls,
             \/ ScanAnswered(c) \/ TickedDeleted(c) \/ Removed(c)
             \/ Saved(c) \/ RenameRefused(c) \/ Renamed(c) \/ RedisFails(c)
      PROVE  Faithful'
  <2>1. ~vague /\ (RedisFails(c) => pc[c] # "served")
    BY <1>3, AnsweredFacts, FailedFacts
       DEF ScanAnswered, TickedDeleted, Removed, Saved, RenameRefused, Renamed, RedisFails,
           RedisInv, Shape
  <2> QED
    BY <1>3, <2>1, FaithfulAnswered
<1> QED
  BY <1>1, <1>2, <1>3, FaithfulAsks DEF RedisNext

-----------------------------------------------------------------------------
(***************************************************************************)
(* The panel on a value.  What the commands make of a value of each type.  *)
(***************************************************************************)
LEMMA EmptyValue ==
  ASSUME NEW f, f = [x \in DOMAIN f |-> f[x]], DOMAIN f = {}
  PROVE  f = Nothing
<1>1. f \in [1..0 -> {0}]
  OBVIOUS
<1>2. f \in Seq({0}) /\ Len(f) = 0
  BY <1>1
<1> QED
  BY <1>2, EmptySeq DEF Nothing

LEMMA NothingIsEmpty == DOMAIN Nothing = {} /\ Nothing \in Seq(Texts) /\ Len(Nothing) = 0
  BY DEF Nothing

\* A value, or no value, of a list.
LEMMA Lists ==
  ASSUME NEW v
  PROVE  v \in ValuesOf("list") \cup {Nothing} <=> v \in Seq(Texts) /\ Len(v) <= MaxLen
<1>1. MaxLen \in Nat
  BY ValuesAssumption
<1>2. ASSUME v \in ValuesOf("list")
      PROVE  v \in Seq(Texts) /\ Len(v) <= MaxLen
  <2>1. PICK n \in 1..MaxLen : v \in [1..n -> Texts]
    BY <1>2 DEF ValuesOf
  <2> QED
    BY <1>1, <2>1
<1>3. ASSUME v \in Seq(Texts), Len(v) <= MaxLen, v # Nothing
      PROVE  v \in ValuesOf("list")
  <2>1. Len(v) \in Nat /\ v \in [1..Len(v) -> Texts]
    BY <1>3, LenProperties
  <2>2. Len(v) # 0
    BY <1>3, EmptySeq DEF Nothing
  <2>3. Len(v) \in 1..MaxLen
    BY <1>1, <1>3, <2>1, <2>2
  <2> QED
    BY <2>1, <2>3 DEF ValuesOf
<1>4. CASE v = Nothing
  BY <1>1, <1>4, NothingIsEmpty
<1>5. CASE v # Nothing
  BY <1>2, <1>3, <1>5
<1> QED
  BY <1>4, <1>5

\* Of a set.
LEMMA Sets ==
  ASSUME NEW v
  PROVE  v \in ValuesOf("set") \cup {Nothing}
            <=> DOMAIN v \subseteq Parts /\ v = [m \in DOMAIN v |-> m]
<1>1. ASSUME v \in ValuesOf("set")
      PROVE  DOMAIN v \subseteq Parts /\ v = [m \in DOMAIN v |-> m]
  BY <1>1 DEF ValuesOf
<1>2. ASSUME DOMAIN v \subseteq Parts, v = [m \in DOMAIN v |-> m], v # Nothing
      PROVE  v \in ValuesOf("set")
  <2>1. DOMAIN v # {}
    BY <1>2, EmptyValue
  <2>2. DOMAIN v \in (SUBSET Parts) \ {{}}
    BY <1>2, <2>1
  <2>3. v \in {[m \in S |-> m] : S \in (SUBSET Parts) \ {{}}}
    BY <1>2, <2>2
  <2> QED
    BY <2>3 DEF ValuesOf
<1>3. Nothing = [m \in DOMAIN Nothing |-> m]
  <2>1. [m \in DOMAIN Nothing |-> m] = Nothing
    BY NothingIsEmpty, EmptyValue
  <2> QED
    BY <2>1
<1> QED
  BY <1>1, <1>2, <1>3, NothingIsEmpty

\* Of a hash or a sorted set.
LEMMA Maps ==
  ASSUME NEW v, NEW t \in {"hash", "zset"}
  PROVE  v \in ValuesOf(t) \cup {Nothing}
            <=> DOMAIN v \subseteq Parts /\ v \in [DOMAIN v -> Texts]
<1>1. ASSUME v \in ValuesOf(t)
      PROVE  DOMAIN v \subseteq Parts /\ v \in [DOMAIN v -> Texts]
  BY <1>1 DEF ValuesOf
<1>2. ASSUME DOMAIN v \subseteq Parts, v \in [DOMAIN v -> Texts], v # Nothing
      PROVE  v \in ValuesOf(t)
  <2>1. DOMAIN v # {}
    BY <1>2, EmptyValue
  <2>2. DOMAIN v \in (SUBSET Parts) \ {{}}
    BY <1>2, <2>1
  <2>3. v \in UNION {[S -> Texts] : S \in (SUBSET Parts) \ {{}}}
    BY <1>2, <2>2
  <2> QED
    BY <2>3 DEF ValuesOf
<1>3. Nothing \in [DOMAIN Nothing -> Texts]
  <2> DEFINE f == [m \in {} |-> m]
  <2>1. f = [m \in DOMAIN f |-> f[m]] /\ DOMAIN f = {}
    OBVIOUS
  <2>2. f \in [{} -> Texts]
    OBVIOUS
  <2> HIDE DEF f
  <2>3. f = Nothing
    BY <2>1, EmptyValue
  <2> QED
    BY <2>2, <2>3, NothingIsEmpty
<1> QED
  BY <1>1, <1>2, <1>3, NothingIsEmpty

LEMMA Strings == ValuesOf("string") = {<<d>> : d \in Texts \cup {0}}
  BY DEF ValuesOf

-----------------------------------------------------------------------------
\* What the editor of a string or a hash may hold, and so what it may write.
Text == IF type = "string" THEN ValuesOf("string") ELSE ValuesOf("hash") \cup {Nothing}
Edited == {"string", "hash"}
Appended == Windowed \cup {"set"}

\* What a request was sent with, and its answer.
SentWith(o, a) ==
    \/ /\ o = "getValue" /\ a.start \in Nat /\ (type = "set" => a.start \in {0, 1})
       /\ a.last \subseteq {"loading", "adding"}
    \/ o = "getTTL" /\ a.last \subseteq {"ttlSaving"}
    \/ o = "setValue" /\ type \in Edited /\ a.value \in Text
    \/ o = "setElement" /\ type = "list" /\ a.index = a.at /\ a.to \in Texts
    \/ /\ o = "add" /\ type \in Appended /\ a.start \in Nat
       /\ a.values = <<a.values[1]>> /\ a.score \in Texts
       /\ a.values[1] \in IF type = "list" THEN Texts ELSE Parts
    \/ o = "removePart" /\ type \in {"set", "zset"}
    \/ o \in {"setTTL", "persist"} /\ a.ttl \in 0..MaxTTL

AnsweredWith(o, r) ==
    /\ o = "getValue" /\ type \in Edited => r.rows \in Text
    /\ o = "getTTL" => r.ttl \in 0..MaxTTL \cup {None}

ValueRequest(c) ==
    \/ pc[c] = "idle"
    \/ /\ pc[c] \in {"sent", "served"}
       /\ SentWith(op[c], arg[c])
       /\ pc[c] = "served" => AnsweredWith(op[c], ans[c])

\* The request that carries a flag resets it when it ends.
Carries(c, f) ==
    /\ pc[c] # "idle"
    /\ \/ f = "loading" /\ op[c] = "getValue" /\ f \in arg[c].last
       \/ f = "adding" /\ (op[c] = "add" \/ (op[c] = "getValue" /\ f \in arg[c].last))
       \/ f = "saving" /\ op[c] \in {"setValue", "setElement"}
       \/ f = "ttlSaving" /\ (\/ op[c] \in {"setTTL", "persist"}
                              \/ op[c] = "getTTL" /\ f \in arg[c].last)

Carried ==
    /\ \A f \in busy : \E c \in Calls : Carries(c, f)
    /\ removingPart # None => \E c \in Calls : pc[c] # "idle" /\ op[c] = "removePart"

\* Before the panel is opened nothing is asked for.
Unopened == ~panel => Out = {} /\ rows = None /\ opened = None

\* The row under edit is the one that was clicked; the editor holds a text.
Editor ==
    /\ type = "set" => start \in {0, 1}
    /\ opened # None => type = "list" /\ opened.at = start + opened.index - 1
    /\ type \in Edited /\ rows # None => rows \in Text

\* One element is appended at a time, to a list that has room for it.
Room ==
    type = "list" =>
        \A c \in Pending("add") :
            /\ Pending("add") = {c}
            /\ pc[c] = "sent" => Len(stored) < MaxLen

ValuesInv ==
    /\ Shape
    /\ ValuesTypeOK
    /\ \A c \in Calls : ValueRequest(c)
    /\ Carried
    /\ Unopened
    /\ Editor
    /\ Room
    /\ kept \subseteq DOMAIN stored

\* Every flag has its request, and an element is set at the index clicked.
LEMMA ValuesInvImplies ==
  ValuesInv => ValueFlagsAccountedFor /\ ElementEditsHitTheirRow /\ PartsSurvive
<1> SUFFICES ASSUME ValuesInv
             PROVE  ValueFlagsAccountedFor /\ ElementEditsHitTheirRow /\ PartsSurvive
  OBVIOUS
<1> USE DEF ValuesInv
<1>1. ASSUME NEW f \in {"loading", "adding", "ttlSaving"} \cap busy
      PROVE  \E c \in Out : \/ op[c] \in {"getValue", "getTTL"}
                            \/ op[c] = "add" /\ f = "adding"
                            \/ op[c] \in OnTTL /\ f = "ttlSaving"
  <2>1. PICK c \in Calls : Carries(c, f)
    BY <1>1 DEF Carried
  <2> QED
    BY <1>1, <2>1 DEF Carries, Out, OnTTL
<1>2. "saving" \in busy => Pending("setValue") \cup Pending("setElement") # {}
  BY DEF Carried, Carries, Pending, Out
<1>3. removingPart # None => Pending("removePart") # {}
  BY DEF Carried, Pending, Out
<1>4. ElementEditsHitTheirRow
  BY DEF ElementEditsHitTheirRow, ValueRequest, SentWith, Pending, Out
<1> QED
  BY <1>1, <1>2, <1>3, <1>4 DEF ValueFlagsAccountedFor, PartsSurvive

-----------------------------------------------------------------------------
\* A flag stays carried when a step of c drops the ones c carried, and raises
\* none but those it carries from now on.
LEMMA StillCarried ==
  ASSUME Carried, NEW c \in Calls, Only(c),
         \A f \in busy' : (f \in busy /\ ~Carries(c, f)) \/ Carries(c, f)',
         removingPart' # None =>
            \/ removingPart' = removingPart /\ (pc[c] = "idle" \/ op[c] # "removePart")
            \/ pc'[c] # "idle" /\ op'[c] = "removePart"
  PROVE  Carried'
<1>1. ASSUME NEW f \in busy'
      PROVE  \E d \in Calls : Carries(d, f)'
  <2>1. CASE Carries(c, f)'
    BY <2>1
  <2>2. CASE f \in busy /\ ~Carries(c, f)
    <3>1. PICK d \in Calls : Carries(d, f)
      BY <2>2 DEF Carried
    <3>2. d # c
      BY <2>2, <3>1
    <3>3. Carries(d, f)'
      BY <3>1, <3>2 DEF Only, Carries
    <3> QED
      BY <3>3
  <2> QED
    BY <1>1, <2>1, <2>2
<1>2. ASSUME removingPart' # None
      PROVE  \E d \in Calls : pc'[d] # "idle" /\ op'[d] = "removePart"
  <2>1. CASE removingPart' = removingPart /\ (pc[c] = "idle" \/ op[c] # "removePart")
    <3>1. PICK d \in Calls : pc[d] # "idle" /\ op[d] = "removePart"
      BY <1>2, <2>1 DEF Carried
    <3> QED
      BY <2>1, <3>1 DEF Only
  <2>2. CASE pc'[c] # "idle" /\ op'[c] = "removePart"
    BY <2>2
  <2> QED
    BY <1>2, <2>1, <2>2
<1> QED
  BY <1>1, <1>2 DEF Carried

\* The other requests keep what they were sent with.
LEMMA OtherRequests ==
  ASSUME \A d \in Calls : ValueRequest(d), NEW c \in Calls, Only(c), type' = type
  PROVE  \A d \in Calls \ {c} : ValueRequest(d)'
<1>1. TAKE d \in Calls \ {c}
<1>2. ValueRequest(d) /\ UNCHANGED <<op[d], pc[d], arg[d], ans[d]>>
  BY DEF Only
<1>3. SentWith(op[d], arg[d]) => SentWith(op[d], arg[d])'
  BY <1>2 DEF SentWith, Text, Edited, Appended, Windowed, ValuesOf
<1>4. AnsweredWith(op[d], ans[d]) => AnsweredWith(op[d], ans[d])'
  BY <1>2 DEF AnsweredWith, Text, Edited, ValuesOf
<1> QED
  BY <1>2, <1>3, <1>4 DEF ValueRequest

\* The user writes into an editor, or opens a row; the server lets a key expire.
LEMMA ValuesClick ==
  ASSUME ValuesInv,
         \/ Expires
         \/ \E v \in ValuesOf(type) \cup IF type = "string" THEN {} ELSE {Nothing} : EditText(v)
         \/ \E i \in 1..WindowSize, d \in Texts : StartElement(i, d)
         \/ CancelElement
  PROVE  ValuesInv'
<1> USE DEF ValuesInv, requestVars, screen
<1>1. /\ UNCHANGED <<requestVars, type, panel, start, filled, label, busy, removingPart, dropped>>
      /\ vague' \in BOOLEAN
  BY DEF Expires, EditText, StartElement, CancelElement, Shape
<1>2. Shape' /\ Carried'
  BY <1>1 DEF Shape, Carried, Carries
<1>3. \A c \in Calls : ValueRequest(c)'
  BY <1>1 DEF ValueRequest, SentWith, AnsweredWith, Text, Edited, Appended, Windowed
<1>4. MaxTTL \in Nat
  BY ValuesAssumption
<1>5. \/ stored' = stored /\ expiry' = expiry /\ kept' = kept
      \/ stored' = Nothing /\ expiry' = 0 /\ kept' = {}
  BY DEF Expires, EditText, StartElement, CancelElement
<1>6. /\ rows' # None => panel
      /\ opened' # None => panel
  BY DEF Unopened, Expires, EditText, StartElement, CancelElement
<1>7. opened' = None \/ (opened'.index \in 1..WindowSize /\ opened'.to \in Texts)
  BY DEF ValuesTypeOK, Expires, EditText, StartElement, CancelElement
<1>8. Editor'
  BY <1>1 DEF Editor, Expires, EditText, StartElement, CancelElement, Text, Edited
<1>9. Room'
  <2>1. Len(stored') = Len(stored) \/ Len(stored') = 0
    BY <1>5, NothingIsEmpty
  <2>2. MaxLen \in Nat \ {0}
    BY ValuesAssumption
  <2> QED
    BY <1>1, <2>1, <2>2 DEF Room, Pending, Out
<1>10. Unopened'
  BY <1>1, <1>6 DEF Unopened, Out
<1>11. ValuesTypeOK'
  BY <1>1, <1>4, <1>5, <1>7 DEF ValuesTypeOK
<1>12. kept' \subseteq DOMAIN stored'
  BY <1>5
<1> QED
  BY <1>2, <1>3, <1>8, <1>9, <1>10, <1>11, <1>12

\* The panel is opened: nothing was out before.
LEMMA ValuesShown ==
  ASSUME ValuesInv, NEW c \in Calls, NEW d \in Calls, ShowPanel(c, d)
  PROVE  ValuesInv'
<1> USE DEF ValuesInv
<1>1. /\ op' = [op EXCEPT ![c] = "getValue", ![d] = "getTTL"]
      /\ pc' = [pc EXCEPT ![c] = "sent", ![d] = "sent"]
      /\ arg' = [arg EXCEPT ![c] = LoadArg(0, {"loading"}), ![d] = [last |-> {}]]
      /\ UNCHANGED <<ans, vague, stored, type, expiry, rows, start, filled, opened, label,
                     removingPart, kept, dropped>>
      /\ busy' = {"loading"} /\ panel' = TRUE /\ c # d
      /\ Out = {} /\ rows = None /\ opened = None
  BY DEF ShowPanel, Unopened
<1>2. \A e \in Calls : pc[e] = "idle"
  BY <1>1 DEF Out
<1>3. Shape' /\ Unopened'
  BY <1>1 DEF Shape, Unopened
<1>4. ASSUME NEW e \in Calls
      PROVE  ValueRequest(e)' /\ (pc'[e] # "idle" => e \in {c, d}) /\ op'[c] = "getValue"
             /\ pc'[c] = "sent" /\ "loading" \in arg'[c].last /\ op'[d] = "getTTL"
  BY <1>1, <1>2 DEF Shape, ValueRequest, SentWith, LoadArg
<1>5. Carried'
  <2>1. removingPart' = None
    BY <1>1, <1>2 DEF Carried
  <2>2. Carries(c, "loading")'
    BY <1>4 DEF Carries
  <2> QED
    BY <1>1, <2>1, <2>2 DEF Carried
<1>6. Room'
  BY <1>1, <1>4 DEF Room, Pending, Out
<1>7. Editor' /\ ValuesTypeOK' /\ kept' \subseteq DOMAIN stored'
  BY <1>1 DEF Editor, Edited, ValuesTypeOK
<1> QED
  BY <1>3, <1>4, <1>5, <1>6, <1>7

\* What else a handler does before its first await: it raises its flag.
Raises(o, a) ==
    /\ panel
    /\ UNCHANGED <<panel, rows, start, filled, opened, label>>
    /\ \/ /\ o = "getValue" /\ "loading" \in a.last
          /\ busy' = busy \cup {"loading"} /\ UNCHANGED removingPart
       \/ /\ o \in {"setValue", "setElement"}
          /\ busy' = busy \cup {"saving"} /\ UNCHANGED removingPart
       \/ /\ o = "add" /\ busy' = busy \cup {"adding"} /\ UNCHANGED removingPart
          /\ type = "list" => Len(stored) < MaxLen /\ Pending("add") = {}
       \/ o = "removePart" /\ removingPart' \in Parts /\ UNCHANGED busy
       \/ /\ o \in {"setTTL", "persist"}
          /\ busy' = busy \cup {"ttlSaving"} /\ UNCHANGED removingPart

LEMMA AskFacts ==
  ASSUME Shape, NEW c \in Calls, NEW o, NEW a, Ask(c, o, a)
  PROVE  /\ Shape' /\ Only(c)
         /\ pc[c] = "idle" /\ pc'[c] = "sent" /\ op'[c] = o /\ arg'[c] = a
         /\ UNCHANGED <<stored, type, expiry, kept, dropped>>
  BY DEF Shape, Ask, Only

\* The rows a handler has seen when it sends a request.
AskedFor(o, a) ==
    /\ o \in {"setElement", "removePart"} => rows # None
    /\ o = "setElement" => a.row \in 1..WindowSize /\ a.index = start + a.row - 1
    /\ o = "getValue" /\ type = "set" /\ a.start # 0 => rows # None /\ start = 1

Asked(c, o, a) ==
    /\ Ask(c, o, a) /\ SentWith(o, a) /\ Raises(o, a)
    /\ (opened # None => rows # None) => AskedFor(o, a)

\* What the user's clicks ask for.
Asks(c) ==
    \/ \E s \in 0..MaxLen : TurnWindow(c, s)
    \/ SaveText(c) \/ SaveElement(c)
    \/ \E m \in Parts \cup Texts, s \in Texts : AddPart(c, m, s)
    \/ \E m \in Parts : RemovePart(c, m)
    \/ \E t \in 0..MaxTTL : ChangeTTL(c, "setTTL", t)
    \/ ChangeTTL(c, "persist", 0)

LEMMA AskedWith ==
  ASSUME ValuesInv, NEW c \in Calls, Asks(c)
  PROVE  \E o, a : Asked(c, o, a)
<1> USE DEF ValuesInv
<1>1. MaxTTL \in Nat /\ MaxLen \in Nat
  BY ValuesAssumption
<1>2. (rows # None => panel) /\ (opened # None => panel)
  BY DEF Unopened
<1>3. ASSUME NEW s \in 0..MaxLen, TurnWindow(c, s)
      PROVE  \E o, a : Asked(c, o, a)
  <2> DEFINE a == LoadArg(s, {"loading"})
  <2>1. Ask(c, "getValue", a)
    BY <1>3 DEF TurnWindow
  <2>2. type = "set" => s \in {0, 1}
    BY <1>3 DEF TurnWindow, TurnsPages, Windowed, Editor
  <2>3. SentWith("getValue", a)
    BY <1>1, <2>2 DEF SentWith, LoadArg
  <2>4. Raises("getValue", a)
    BY <1>2, <1>3 DEF Raises, TurnWindow, LoadArg
  <2>5. (opened # None => rows # None) => AskedFor("getValue", a)
    BY <1>3 DEF TurnWindow, LoadArg, AskedFor, Editor, TurnsPages, Windowed
  <2> HIDE DEF a
  <2> QED
    BY <2>1, <2>3, <2>4, <2>5 DEF Asked
<1>4. CASE SaveText(c)
  <2> DEFINE a == [value |-> rows]
  <2>1. Ask(c, "setValue", a)
    BY <1>4 DEF SaveText
  <2>2. SentWith("setValue", a)
    BY <1>4 DEF SaveText, SentWith, Editor, Edited
  <2>3. Raises("setValue", a)
    BY <1>2, <1>4 DEF Raises, SaveText
  <2>4. (opened # None => rows # None) => AskedFor("setValue", a)
    BY <1>4 DEF AskedFor
  <2> HIDE DEF a
  <2> QED
    BY <2>1, <2>2, <2>3, <2>4 DEF Asked
<1>5. CASE SaveElement(c)
  <2> DEFINE a == [index |-> start + opened.index - 1, row |-> opened.index,
                   to |-> opened.to, at |-> opened.at]
  <2>1. Ask(c, "setElement", a)
    BY <1>5 DEF SaveElement
  <2>2. SentWith("setElement", a)
    BY <1>5 DEF SaveElement, SentWith, Editor, ValuesTypeOK
  <2>3. Raises("setElement", a)
    BY <1>2, <1>5 DEF Raises, SaveElement
  <2>4. (opened # None => rows # None) => AskedFor("setElement", a)
    BY <1>5 DEF SaveElement, AskedFor, ValuesTypeOK
  <2> HIDE DEF a
  <2> QED
    BY <2>1, <2>2, <2>3, <2>4 DEF Asked
<1>6. ASSUME NEW m \in Parts \cup Texts, NEW s \in Texts, AddPart(c, m, s)
      PROVE  \E o, a : Asked(c, o, a)
  <2> DEFINE a == [values |-> <<m>>, score |-> s, start |-> start]
  <2>1. Ask(c, "add", a)
    BY <1>6 DEF AddPart
  <2>2. SentWith("add", a)
    BY <1>6 DEF AddPart, SentWith, Appended, ValuesTypeOK
  <2>3. Raises("add", a)
    BY <1>2, <1>6 DEF Raises, AddPart
  <2>4. (opened # None => rows # None) => AskedFor("add", a)
    BY <1>6 DEF AskedFor
  <2> HIDE DEF a
  <2> QED
    BY <2>1, <2>2, <2>3, <2>4 DEF Asked
<1>7. ASSUME NEW m \in Parts, RemovePart(c, m)
      PROVE  \E o, a : Asked(c, o, a)
  <2> DEFINE a == [part |-> m]
  <2>1. Ask(c, "removePart", a)
    BY <1>7 DEF RemovePart
  <2>2. SentWith("removePart", a)
    BY <1>7 DEF RemovePart, SentWith
  <2>3. Raises("removePart", a)
    BY <1>2, <1>7 DEF Raises, RemovePart
  <2>4. (opened # None => rows # None) => AskedFor("removePart", a)
    BY <1>7 DEF RemovePart, AskedFor
  <2> HIDE DEF a
  <2> QED
    BY <2>1, <2>2, <2>3, <2>4 DEF Asked
<1>8. ASSUME NEW o \in {"setTTL", "persist"}, NEW t \in 0..MaxTTL, ChangeTTL(c, o, t)
      PROVE  \E x, a : Asked(c, x, a)
  <2> DEFINE a == [ttl |-> t]
  <2>1. Ask(c, o, a)
    BY <1>8 DEF ChangeTTL
  <2>2. SentWith(o, a)
    BY <1>8 DEF SentWith
  <2>3. Raises(o, a)
    BY <1>8 DEF Raises, ChangeTTL
  <2>4. (opened # None => rows # None) => AskedFor(o, a)
    BY <1>8 DEF AskedFor
  <2> HIDE DEF a
  <2> QED
    BY <2>1, <2>2, <2>3, <2>4 DEF Asked
<1>9. 0 \in 0..MaxTTL
  BY <1>1
<1> QED
  BY <1>3, <1>4, <1>5, <1>6, <1>7, <1>8, <1>9 DEF Asks

LEMMA ValuesAsks ==
  ASSUME ValuesInv, NEW c \in Calls, Asks(c)
  PROVE  ValuesInv'
<1> USE DEF ValuesInv
<1>3. PICK o, a : Ask(c, o, a) /\ SentWith(o, a) /\ Raises(o, a)
  BY AskedWith DEF Asked
<1>4. /\ Shape' /\ Only(c)
      /\ pc[c] = "idle" /\ pc'[c] = "sent" /\ op'[c] = o /\ arg'[c] = a
      /\ UNCHANGED <<stored, type, expiry, kept, dropped>>
  BY <1>3, AskFacts
<1>5. /\ panel /\ UNCHANGED <<panel, rows, start, filled, opened, label>>
      /\ busy' \subseteq {"loading", "saving", "adding", "ttlSaving"}
      /\ removingPart' \in Parts \cup {None}
  BY <1>3 DEF Raises, ValuesTypeOK
<1>6. ValueRequest(c)'
  <2>1. SentWith(o, a)'
    BY <1>3, <1>4 DEF SentWith, Text, Edited, Appended, Windowed, ValuesOf
  <2> QED
    BY <1>4, <2>1 DEF ValueRequest
<1>7. \A d \in Calls : ValueRequest(d)'
  BY <1>4, <1>6, OtherRequests
<1>8. Carried'
  <2>1. ASSUME NEW f \in busy'
        PROVE  f \in busy \/ Carries(c, f)'
    BY <1>3, <1>4, <2>1 DEF Raises, Carries
  <2>2. ASSUME NEW f
        PROVE  ~Carries(c, f)
    BY <1>4 DEF Carries
  <2>3. removingPart' = removingPart \/ op'[c] = "removePart"
    BY <1>3, <1>4 DEF Raises
  <2> QED
    BY <1>4, <2>1, <2>2, <2>3, StillCarried
<1>9. Room'
  <2>1. SUFFICES ASSUME type = "list"
                 PROVE  \A d \in Pending("add")' :
                           /\ Pending("add")' = {d}
                           /\ pc'[d] = "sent" => Len(stored) < MaxLen
    BY <1>4 DEF Room
  <2>2. CASE o = "add"
    <3>1. Len(stored) < MaxLen /\ Pending("add") = {}
      BY <1>3, <2>1, <2>2 DEF Raises
    <3>2. Pending("add")' = {c}
      BY <1>4, <2>2, <3>1 DEF Pending, Out, Only
    <3> QED
      BY <3>1, <3>2
  <2>3. CASE o # "add"
    <3>1. Pending("add")' = Pending("add") /\ \A d \in Pending("add") : pc'[d] = pc[d]
      BY <1>4, <2>3 DEF Pending, Out, Only
    <3> QED
      BY <2>1, <3>1 DEF Room
  <2> QED
    BY <2>2, <2>3
<1>10. Unopened' /\ Editor' /\ ValuesTypeOK' /\ kept' \subseteq DOMAIN stored'
  <2>1. Unopened'
    BY <1>5 DEF Unopened
  <2>2. Editor'
    BY <1>4, <1>5 DEF Editor, Text, Edited, ValuesOf
  <2>3. ValuesTypeOK'
    BY <1>4, <1>5 DEF ValuesTypeOK
  <2> QED
    BY <1>4, <2>1, <2>2, <2>3
<1> QED
  BY <1>4, <1>7, <1>8, <1>9, <1>10

-----------------------------------------------------------------------------
\* A request that is served is no other request, and its handler waits on.
LEMMA ValuesServed ==
  ASSUME ValuesInv, NEW c \in Calls, NEW o, NEW r, Serve(c, o, "sent", r),
         UNCHANGED <<type, screen>>,
         AnsweredWith(o, r),
         stored' \in ValuesOf(type) \cup {Nothing},
         expiry' \in 0..MaxTTL \cup {None}, dropped' \in BOOLEAN,
         kept' \subseteq (Parts \cup 1..MaxLen) \cap DOMAIN stored',
         type = "list" => Len(stored') <= Len(stored) \/ o = "add"
  PROVE  ValuesInv'
<1> USE DEF ValuesInv, screen
<1>1. /\ Shape' /\ Only(c) /\ UNCHANGED <<op, arg>>
      /\ op[c] = o /\ pc[c] = "sent" /\ pc'[c] = "served" /\ ans'[c] = r
  BY ServeFacts
<1>2. \A d \in Calls : (pc'[d] # "idle") = (pc[d] # "idle")
  BY <1>1 DEF Only
<1>3. Out' = Out /\ \A x : Pending(x)' = Pending(x)
  BY <1>1, <1>2 DEF Out, Pending
<1>4. ValueRequest(c)'
  <2>1. SentWith(o, arg[c])
    BY <1>1 DEF ValueRequest
  <2>2. SentWith(o, arg[c])'
    BY <1>1, <2>1 DEF SentWith, Text, Edited, Appended, Windowed, ValuesOf
  <2>3. AnsweredWith(o, r)'
    BY DEF AnsweredWith, Text, Edited, ValuesOf
  <2> QED
    BY <1>1, <2>2, <2>3 DEF ValueRequest
<1>5. \A d \in Calls : ValueRequest(d)'
  BY <1>1, <1>4, OtherRequests
<1>6. Carried' /\ Unopened' /\ Editor'
  BY <1>1, <1>2, <1>3 DEF Carried, Carries, Unopened, Editor, Text, Edited, ValuesOf
<1>7. Room'
  <2>1. ASSUME type = "list", NEW d \in Pending("add")
        PROVE  Pending("add") = {d} /\ (pc'[d] = "sent" => Len(stored') < MaxLen)
    <3>1. Pending("add") = {d} /\ (pc[d] = "sent" => Len(stored) < MaxLen)
      BY <2>1 DEF Room
    <3>2. d # c => pc'[d] = pc[d] /\ (o # "add")
      BY <1>1, <2>1, <3>1 DEF Only, Pending, Out
    <3>3. stored \in Seq(Texts) /\ stored' \in Seq(Texts)
      BY <2>1, Lists DEF ValuesTypeOK
    <3>4. Len(stored) \in Int /\ Len(stored') \in Int /\ MaxLen \in Int
      BY <3>3, ValuesAssumption
    <3> QED
      BY <1>1, <2>1, <3>1, <3>2, <3>4
  <2> QED
    BY <1>3, <2>1 DEF Room
<1>8. ValuesTypeOK'
  BY DEF ValuesTypeOK
<1> QED
  BY <1>1, <1>5, <1>6, <1>7, <1>8

\* What a command answers, or leaves in the store, is a value of its type.
LEMMA ValuesRead ==
  ASSUME ValuesInv, NEW c \in Calls,
         \/ GetRedisString(c) \/ GetRedisHash(c) \/ GetRedisList(c) \/ GetRedisSet(c)
         \/ GetRedisSortedSet(c) \/ GetRedisTTL(c)
  PROVE  ValuesInv'
<1> USE DEF ValuesInv, valueVars, screen
<1>1. UNCHANGED <<stored, type, expiry, screen, kept>> /\ dropped' \in {dropped, FALSE}
  BY DEF GetRedisString, GetRedisHash, GetRedisList, GetRedisSet, GetRedisSortedSet, GetRedisTTL,
         Reads
<1>2. PICK o, r : Serve(c, o, "sent", r) /\ AnsweredWith(o, r)
  <2>1. ASSUME NEW t, NEW v, Reads(c, "getValue", t, v), t \in Edited => v \in Text
        PROVE  \E o, r : Serve(c, o, "sent", r) /\ AnsweredWith(o, r)
    <3> DEFINE r == [rows |-> v]
    <3>1. Serve(c, "getValue", "sent", r) /\ type = t
      BY <2>1 DEF Reads
    <3>2. AnsweredWith("getValue", r)
      BY <2>1, <3>1 DEF AnsweredWith
    <3> HIDE DEF r
    <3> QED
      BY <3>1, <3>2
  <2>2. CASE GetRedisString(c)
    <3>1. Reads(c, "getValue", "string", GetString(stored)) /\ stored # Nothing
      BY <2>2 DEF GetRedisString
    <3>2. GetString(stored) \in Text
      BY <3>1 DEF GetString, Text, Reads, ValuesTypeOK
    <3> QED
      BY <2>1, <3>1, <3>2
  <2>3. CASE GetRedisHash(c)
    <3>1. Reads(c, "getValue", "hash", GetHash(stored))
      BY <2>3 DEF GetRedisHash
    <3>2. GetHash(stored) \in Text
      BY <3>1 DEF GetHash, Text, Reads, ValuesTypeOK
    <3> QED
      BY <2>1, <3>1, <3>2
  <2>4. CASE GetRedisList(c) \/ GetRedisSet(c) \/ GetRedisSortedSet(c)
    BY <2>1, <2>4 DEF GetRedisList, GetRedisSet, GetRedisSortedSet, Edited
  <2>5. CASE GetRedisTTL(c)
    <3> DEFINE r == [ttl |-> TTL]
    <3>1. Serve(c, "getTTL", "sent", r)
      BY <2>5 DEF GetRedisTTL
    <3>2. AnsweredWith("getTTL", r)
      BY DEF AnsweredWith, TTL, ValuesTypeOK
    <3> HIDE DEF r
    <3> QED
      BY <3>1, <3>2
  <2> QED
    BY <2>2, <2>3, <2>4, <2>5
<1>3. /\ stored' \in ValuesOf(type) \cup {Nothing} /\ expiry' \in 0..MaxTTL \cup {None}
      /\ dropped' \in BOOLEAN
      /\ kept' \subseteq (Parts \cup 1..MaxLen) \cap DOMAIN stored'
  BY <1>1 DEF ValuesTypeOK
<1>4. type = "list" => Len(stored') <= Len(stored)
  <2>1. ASSUME type = "list"
        PROVE  Len(stored') <= Len(stored)
    <3>1. stored \in Seq(Texts)
      BY <2>1, Lists DEF ValuesTypeOK
    <3>2. Len(stored) \in Int
      BY <3>1
    <3> QED
      BY <1>1, <3>2
  <2> QED
    BY <2>1
<1> QED
  BY <1>1, <1>2, <1>3, <1>4, ValuesServed

\* HSET and ZADD: the fields named, beside the old ones.
LEMMA Merged ==
  ASSUME NEW v, NEW w, NEW t \in {"hash", "zset"},
         v \in ValuesOf(t) \cup {Nothing}, DOMAIN w \subseteq Parts, w \in [DOMAIN w -> Texts]
  PROVE  /\ SetHash(v, w) \in ValuesOf(t) \cup {Nothing}
         /\ DOMAIN SetHash(v, w) = DOMAIN v \cup DOMAIN w
<1>1. DOMAIN v \subseteq Parts /\ v \in [DOMAIN v -> Texts]
  BY Maps
<1> DEFINE f == SetHash(v, w)
<1>2. DOMAIN f = DOMAIN v \cup DOMAIN w /\ f \in [DOMAIN f -> Texts]
  BY <1>1 DEF SetHash
<1> HIDE DEF f
<1>3. f \in ValuesOf(t) \cup {Nothing}
  BY <1>1, <1>2, Maps
<1> QED
  BY <1>2, <1>3 DEF f

LEMMA ValuesWritten ==
  ASSUME ValuesInv, NEW c \in Calls, NEW o \in {"setValue", "setElement", "add", "removePart"},
         NEW t, NEW v, Writes(c, o, t, v),
         v \in ValuesOf(t) \cup {Nothing},
         kept' \subseteq (Parts \cup 1..MaxLen) \cap DOMAIN v,
         t = "list" => Len(v) <= Len(stored) \/ o = "add"
  PROVE  ValuesInv'
<1>1. Serve(c, o, "sent", None) /\ type = t /\ stored' = v /\ UNCHANGED <<type, screen>>
      /\ expiry' = IF v = Nothing \/ t = "string" THEN 0 ELSE expiry
  BY DEF Writes
<1>2. AnsweredWith(o, None)
  BY DEF AnsweredWith
<1>3. expiry' \in 0..MaxTTL \cup {None}
  BY <1>1, ValuesAssumption DEF ValuesInv, ValuesTypeOK
<1>4. dropped' \in BOOLEAN
  <2>1. dropped' = (dropped \/ expiry' # expiry)
    BY DEF Writes
  <2>2. dropped \/ expiry' # expiry => dropped' = TRUE
    BY <2>1
  <2>3. ~(dropped \/ expiry' # expiry) => dropped' = FALSE
    BY <2>1
  <2> QED
    BY <2>2, <2>3
<1> QED
  BY <1>1, <1>2, <1>3, <1>4, ValuesServed

LEMMA ValuesWrite ==
  ASSUME ValuesInv, NEW c \in Calls,
         \/ SetRedisString(c) \/ SetRedisHash(c) \/ PushRedisList(c) \/ SetRedisListElement(c)
         \/ AddRedisSetMembers(c) \/ RemoveRedisSetMembers(c)
         \/ AddRedisSortedSetMembers(c) \/ RemoveRedisSortedSetMembers(c)
  PROVE  ValuesInv'
<1> USE DEF ValuesInv
<1>1. ASSUME NEW o, NEW t, NEW v, Writes(c, o, t, v)
      PROVE  type = t /\ op[c] = o /\ pc[c] = "sent" /\ SentWith(o, arg[c])
  <2>1. type = t /\ op[c] = o /\ pc[c] = "sent"
    BY <1>1, ServeFacts DEF Writes
  <2> QED
    BY <2>1 DEF ValueRequest
<1>2. stored \in ValuesOf(type) \cup {Nothing} /\ kept \subseteq (Parts \cup 1..MaxLen)
      /\ kept \subseteq DOMAIN stored
  BY DEF ValuesTypeOK
<1>3. MaxLen \in Nat /\ 1 \in 1..MaxLen
  BY ValuesAssumption
<1>4. CASE SetRedisString(c)
  <2> DEFINE v == arg[c].value
  <2>1. Writes(c, "setValue", "string", v) /\ kept' = {1}
    BY <1>4 DEF SetRedisString, SetString
  <2>2. v \in ValuesOf("string")
    BY <1>1, <2>1 DEF SentWith, Text
  <2>3. DOMAIN v = {1}
    BY <2>2, Strings
  <2> HIDE DEF v
  <2> QED
    BY <1>3, <2>1, <2>2, <2>3, ValuesWritten
<1>5. CASE SetRedisHash(c)
  <2> DEFINE w == arg[c].value
             v == SetHash(stored, w)
  <2>1. Writes(c, "setValue", "hash", v) /\ kept' = kept \cup DOMAIN w
    BY <1>5 DEF SetRedisHash
  <2>2. type = "hash" /\ w \in ValuesOf("hash") \cup {Nothing}
    BY <1>1, <2>1 DEF SentWith, Text
  <2> HIDE DEF w
  <2>3. DOMAIN w \subseteq Parts /\ w \in [DOMAIN w -> Texts]
    BY <2>2, Maps
  <2>4. v \in ValuesOf("hash") \cup {Nothing} /\ DOMAIN v = DOMAIN stored \cup DOMAIN w
    BY <1>2, <2>2, <2>3, Merged
  <2> HIDE DEF v
  <2> QED
    BY <1>2, <2>1, <2>3, <2>4, ValuesWritten
<1>6. CASE PushRedisList(c)
  <2> DEFINE v == PushList(stored, arg[c].values)
  <2>1. Writes(c, "add", "list", v) /\ kept' = kept \cup DOMAIN v
    BY <1>6 DEF PushRedisList
  <2>2. /\ type = "list" /\ op[c] = "add" /\ pc[c] = "sent"
        /\ arg[c].values = <<arg[c].values[1]>> /\ arg[c].values[1] \in Texts
    BY <1>1, <2>1 DEF SentWith
  <2>3. Len(stored) < MaxLen
    BY <2>2 DEF Room, Pending, Out
  <2>4. stored \in Seq(Texts) /\ Len(stored) <= MaxLen
    BY <1>2, <2>2, Lists
  <2>5. v \in Seq(Texts) /\ Len(v) = Len(stored) + 1 /\ DOMAIN v = 1..Len(v)
    <3> DEFINE m == arg[c].values[1]
    <3>1. m \in Texts /\ v = stored \o <<m>>
      BY <2>2 DEF PushList
    <3> HIDE DEF m, v
    <3>2. <<m>> \in Seq(Texts) /\ Len(<<m>>) = 1
      BY <3>1
    <3>3. v \in Seq(Texts) /\ Len(v) = Len(stored) + 1
      BY <2>4, <3>1, <3>2, ConcatProperties
    <3> QED
      BY <3>3, LenProperties
  <2> HIDE DEF v
  <2>6. Len(stored) \in Nat /\ Len(v) \in 1..MaxLen
    BY <1>3, <2>3, <2>4, <2>5
  <2>7. v \in ValuesOf("list") \cup {Nothing}
    BY <2>5, <2>6, Lists
  <2>8. DOMAIN stored = 1..Len(stored)
    BY <2>4
  <2>9. kept' \subseteq (Parts \cup 1..MaxLen) \cap DOMAIN v
    BY <1>2, <1>3, <2>1, <2>5, <2>6, <2>8
  <2> QED
    BY <2>1, <2>7, <2>9, ValuesWritten
<1>7. CASE SetRedisListElement(c)
  <2> DEFINE v == SetListElement(stored, arg[c].index, arg[c].to)
  <2>1. Writes(c, "setElement", "list", v) /\ kept' = kept
    BY <1>7 DEF SetRedisListElement
  <2>2. type = "list" /\ arg[c].to \in Texts
    BY <1>1, <2>1 DEF SentWith
  <2>3. stored \in Seq(Texts) /\ Len(stored) <= MaxLen
    BY <1>2, <2>2, Lists
  <2>4. v \in Seq(Texts) /\ Len(v) = Len(stored) /\ DOMAIN v = DOMAIN stored
    <3> DEFINE i == arg[c].index + 1
               d == arg[c].to
    <3>1. i \in DOMAIN stored
      BY <1>1, <1>7, <2>1 DEF SetRedisListElement
    <3>2. v = [stored EXCEPT ![i] = d] /\ d \in Texts
      BY <2>2 DEF SetListElement
    <3> HIDE DEF i, d, v
    <3>3. v \in Seq(Texts) /\ Len(v) = Len(stored)
      BY <2>3, <3>1, <3>2, ExceptSeq
    <3> QED
      BY <3>2, <3>3
  <2> HIDE DEF v
  <2>5. v \in ValuesOf("list") \cup {Nothing} /\ Len(v) <= Len(stored)
    BY <2>3, <2>4, Lists
  <2> QED
    BY <1>2, <2>1, <2>4, <2>5, ValuesWritten
<1>8. CASE AddRedisSetMembers(c) \/ RemoveRedisSetMembers(c)
  <2>1. PICK o, ms, v :
            /\ o \in {"add", "removePart"} /\ Writes(c, o, "set", v)
            /\ \/ v = AddToSet(stored, ms) /\ kept' = kept \cup ms /\ ms \subseteq Parts
               \/ v = RemoveFromSet(stored, ms) /\ kept' = kept \ ms
    <3>1. CASE AddRedisSetMembers(c)
      <4> DEFINE ms == {arg[c].values[1]}
      <4>1. Writes(c, "add", "set", AddToSet(stored, ms)) /\ kept' = kept \cup ms
        BY <3>1 DEF AddRedisSetMembers
      <4>2. ms \subseteq Parts
        BY <1>1, <4>1 DEF SentWith
      <4> HIDE DEF ms
      <4> QED
        BY <4>1, <4>2
    <3>2. CASE RemoveRedisSetMembers(c)
      <4> DEFINE ms == {arg[c].part}
      <4>1. Writes(c, "removePart", "set", RemoveFromSet(stored, ms)) /\ kept' = kept \ ms
        BY <3>2 DEF RemoveRedisSetMembers
      <4> HIDE DEF ms
      <4> QED
        BY <4>1
    <3> QED
      BY <1>8, <3>1, <3>2
  <2>2. type = "set" /\ DOMAIN stored \subseteq Parts
    BY <1>1, <1>2, <2>1, Sets
  <2>3. DOMAIN v \subseteq Parts /\ v = [m \in DOMAIN v |-> m] /\ kept' \subseteq DOMAIN v
    BY <1>2, <2>1, <2>2 DEF AddToSet, RemoveFromSet
  <2>4. v \in ValuesOf("set") \cup {Nothing}
    BY <2>3, Sets
  <2> QED
    BY <1>2, <2>1, <2>3, <2>4, ValuesWritten
<1>9. CASE AddRedisSortedSetMembers(c)
  <2> DEFINE m == arg[c].values[1]
             w == [x \in {m} |-> arg[c].score]
             v == SetHash(stored, w)
  <2>1. Writes(c, "add", "zset", v) /\ kept' = kept \cup {m}
    BY <1>9 DEF AddRedisSortedSetMembers, AddToSortedSet
  <2>2. type = "zset" /\ m \in Parts /\ arg[c].score \in Texts
    BY <1>1, <2>1 DEF SentWith
  <2>3. DOMAIN w = {m} /\ DOMAIN w \subseteq Parts /\ w \in [DOMAIN w -> Texts]
    BY <2>2
  <2> HIDE DEF w, m
  <2>4. v \in ValuesOf("zset") \cup {Nothing} /\ DOMAIN v = DOMAIN stored \cup DOMAIN w
    BY <1>2, <2>2, <2>3, Merged
  <2> HIDE DEF v
  <2> QED
    BY <1>2, <2>1, <2>2, <2>3, <2>4, ValuesWritten
<1>10. CASE RemoveRedisSortedSetMembers(c)
  <2> DEFINE m == arg[c].part
             v == RemoveFromSortedSet(stored, {m})
  <2>1. Writes(c, "removePart", "zset", v) /\ kept' = kept \ {m}
    BY <1>10 DEF RemoveRedisSortedSetMembers
  <2>2. type = "zset"
    BY <1>1, <2>1
  <2>3. DOMAIN stored \subseteq Parts /\ stored \in [DOMAIN stored -> Texts]
    BY <1>2, <2>2, Maps
  <2>4. DOMAIN v = DOMAIN stored \ {m} /\ v \in [DOMAIN v -> Texts]
    BY <2>3 DEF RemoveFromSortedSet
  <2> HIDE DEF v, m
  <2>5. v \in ValuesOf("zset") \cup {Nothing}
    BY <2>3, <2>4, Maps
  <2> QED
    BY <1>2, <2>1, <2>3, <2>4, <2>5, ValuesWritten
<1> QED
  BY <1>4, <1>5, <1>6, <1>7, <1>8, <1>9, <1>10

LEMMA ValuesTTL ==
  ASSUME ValuesInv, NEW c \in Calls, SetRedisTTL(c) \/ PersistRedisKey(c)
  PROVE  ValuesInv'
<1> USE DEF ValuesInv
<1>1. MaxTTL \in Nat
  BY ValuesAssumption
<1>2. PICK o : o \in {"setTTL", "persist"} /\ Serve(c, o, "sent", None)
  BY DEF SetRedisTTL, PersistRedisKey
<1>3. arg[c].ttl \in 0..MaxTTL
  BY <1>2, ServeFacts DEF ValueRequest, SentWith
<1>4. UNCHANGED <<type, screen>> /\ AnsweredWith(o, None)
  BY <1>2 DEF SetRedisTTL, PersistRedisKey, AnsweredWith
<1>5. expiry' \in 0..MaxTTL \cup {None} /\ dropped' = FALSE
  BY <1>1, <1>3 DEF SetRedisTTL, PersistRedisKey, SetTTL, PersistKey
<1>6. \/ stored' = stored /\ kept' = kept
      \/ stored' = Nothing /\ kept' = {}
  BY DEF SetRedisTTL, PersistRedisKey
<1>7. /\ stored' \in ValuesOf(type) \cup {Nothing}
      /\ kept' \subseteq (Parts \cup 1..MaxLen) \cap DOMAIN stored'
  BY <1>6 DEF ValuesTypeOK
<1>8. type = "list" => Len(stored') <= Len(stored)
  <2>1. ASSUME type = "list"
        PROVE  Len(stored') <= Len(stored)
    <3>1. stored \in Seq(Texts)
      BY <2>1, Lists DEF ValuesTypeOK
    <3>2. Len(stored) \in Nat
      BY <3>1
    <3> QED
      BY <1>6, <3>2, NothingIsEmpty
  <2> QED
    BY <2>1
<1> QED
  BY <1>2, <1>4, <1>5, <1>7, <1>8, ValuesServed

-----------------------------------------------------------------------------

\* What a handler that goes on leaves of the invariant.
LEMMA GoneOn ==
  ASSUME ValuesInv, NEW c \in Calls, Only(c), Shape', Carried', \A d \in Calls : ValueRequest(d)',
         panel,
         UNCHANGED <<stored, type, expiry, kept, dropped, panel, rows, start, filled, opened,
                     label, removingPart>>,
         busy' \subseteq {"loading", "saving", "adding", "ttlSaving"},
         Pending("add")' \subseteq Pending("add") \ {c}
  PROVE  ValuesInv'
<1> USE DEF ValuesInv
<1>1. Editor'
  BY DEF Editor, Text, Edited, ValuesOf
<1>2. ValuesTypeOK' /\ Unopened'
  BY DEF ValuesTypeOK, Unopened
<1>3. Room'
  BY DEF Room, Pending, Out, Only
<1> QED
  BY <1>1, <1>2, <1>3

\* A handler goes on, and keeps its flags.
LEMMA ValuesGoOn ==
  ASSUME ValuesInv, NEW c \in Calls, PartAdded(c) \/ TTLChanged(c)
  PROVE  ValuesInv'
<1> USE DEF ValuesInv
<1>1. /\ UNCHANGED <<vague, stored, type, expiry, kept, dropped, panel, rows, start, filled,
                     opened, label, removingPart>>
      /\ Shape' /\ Only(c) /\ pc[c] = "served" /\ pc'[c] = "sent" /\ op'[c] \in {"getValue", "getTTL"}
  BY DEF PartAdded, TTLChanged, GoOn, Shape, Only, screen
<1>4. panel
  BY <1>1 DEF Unopened, Out
<1>2. CASE PartAdded(c)
  <2> DEFINE s == IF type = "set" THEN 0 ELSE arg[c].start
             a == LoadArg(s, {"loading", "adding"})
  <2>1. op[c] = "add" /\ op'[c] = "getValue" /\ arg'[c] = a /\ busy' = busy \cup {"loading"}
    BY <1>2 DEF PartAdded, GoOn, Shape
  <2>2. arg[c].start \in Nat
    BY <1>1, <2>1 DEF ValueRequest, SentWith
  <2>3. a.last = {"loading", "adding"} /\ a.start \in Nat /\ (type = "set" => a.start = 0)
    BY <2>2 DEF LoadArg
  <2> HIDE DEF a
  <2>4. ValueRequest(c)'
    BY <1>1, <2>1, <2>3 DEF ValueRequest, SentWith
  <2>5. Carried'
    <3>1. ASSUME NEW f \in busy'
          PROVE  (f \in busy /\ ~Carries(c, f)) \/ Carries(c, f)'
      BY <1>1, <2>1, <2>3, <3>1 DEF Carries
    <3> QED
      BY <1>1, <2>1, <3>1, StillCarried
  <2>6. busy' \subseteq {"loading", "saving", "adding", "ttlSaving"}
    BY <2>1 DEF ValuesTypeOK
  <2>7. Pending("add")' \subseteq Pending("add") \ {c}
    BY <1>1, <2>1 DEF Pending, Out, Only
  <2> QED
    BY <1>1, <1>4, <2>4, <2>5, <2>6, <2>7, OtherRequests, GoneOn
<1>3. CASE TTLChanged(c)
  <2> DEFINE a == [last |-> {"ttlSaving"}]
  <2>1. op[c] \in {"setTTL", "persist"} /\ op'[c] = "getTTL" /\ arg'[c] = a /\ busy' = busy
    BY <1>3 DEF TTLChanged, GoOn, Shape, screen
  <2>3. a.last = {"ttlSaving"} /\ SentWith("getTTL", a)'
    BY DEF SentWith
  <2> HIDE DEF a
  <2>4. ValueRequest(c)'
    BY <1>1, <2>1, <2>3 DEF ValueRequest
  <2>5. Carried'
    <3>1. ASSUME NEW f \in busy'
          PROVE  (f \in busy /\ ~Carries(c, f)) \/ Carries(c, f)'
      BY <1>1, <2>1, <2>3, <3>1 DEF Carries
    <3> QED
      BY <1>1, <2>1, <3>1, StillCarried
  <2>6. busy' \subseteq {"loading", "saving", "adding", "ttlSaving"}
    BY <2>1 DEF ValuesTypeOK
  <2>7. Pending("add")' \subseteq Pending("add") \ {c}
    BY <1>1, <2>1 DEF Pending, Out, Only
  <2> QED
    BY <1>1, <1>4, <2>4, <2>5, <2>6, <2>7, OtherRequests, GoneOn
<1> QED
  BY <1>2, <1>3

\* It ends, and its flags are reset.
LEMMA ValuesEnds ==
  ASSUME ValuesInv, NEW c \in Calls,
         \/ ValueLoaded(c) \/ TextSaved(c) \/ ElementSaved(c) \/ PartRemoved(c) \/ TTLRefreshed(c)
         \/ ValueFails(c)
  PROVE  ValuesInv'
<1> USE DEF ValuesInv
<1>1. /\ Shape' /\ Only(c) /\ pc[c] # "idle" /\ pc'[c] = "idle"
      /\ UNCHANGED <<stored, type, expiry, panel, kept, dropped>>
  BY DEF ValueLoaded, TextSaved, ElementSaved, PartRemoved, TTLRefreshed, ValueFails, Ends, Answered,
         Return, Shape, Only
<1>2. panel
  BY <1>1 DEF Unopened, Out
<1>3. ValueRequest(c)' /\ SentWith(op[c], arg[c])
      /\ (pc[c] = "served" => AnsweredWith(op[c], ans[c]))
  BY <1>1 DEF ValueRequest
<1>4. ~ValueFails(c) => pc[c] = "served"
  BY DEF ValueLoaded, TextSaved, ElementSaved, PartRemoved, TTLRefreshed, Ends, Answered
<1>5. \A d \in Calls : ValueRequest(d)'
  BY <1>1, <1>3, OtherRequests
<1>6. /\ busy' = busy \ CASE op[c] \in {"getValue", "getTTL"} -> arg[c].last
                          [] op[c] \in {"setValue", "setElement"} -> {"saving"}
                          [] op[c] = "add" -> {"adding"}
                          [] op[c] = "removePart" -> {}
                          [] OTHER -> {"ttlSaving"}
      /\ removingPart' = IF op[c] = "removePart" THEN None ELSE removingPart
  BY DEF ValueLoaded, TextSaved, ElementSaved, PartRemoved, TTLRefreshed, ValueFails, Ends, Answered
<1>7. Carried'
  <2>1. ASSUME NEW f \in busy'
        PROVE  f \in busy /\ ~Carries(c, f)
    BY <1>3, <1>6, <2>1 DEF Carries, SentWith
  <2> QED
    BY <1>1, <1>6, <2>1, StillCarried
<1>8. Pending("add")' \subseteq Pending("add") \ {c}
  BY <1>1 DEF Pending, Out, Only
<1>9. busy' \subseteq busy /\ removingPart' \in Parts \cup {None}
  BY <1>6 DEF ValuesTypeOK
<1>10. start' \in Nat /\ filled' \in BOOLEAN /\ label' \in 0..MaxTTL \cup {None}
       /\ (type = "set" => start' \in {0, 1})
       /\ (opened' = None \/ (opened' = opened /\ start' = start))
       /\ (type \in Edited /\ rows' # None => rows' \in Text)
  <2>1. CASE ValueLoaded(c)
    <3>1. op[c] = "getValue" /\ opened' = None /\ label' = label
          /\ start' = IF type = "set" THEN 1 - arg[c].start ELSE arg[c].start
      BY <2>1, AnsweredFacts DEF ValueLoaded, Ends
    <3>2. arg[c].start \in Nat /\ (type = "set" => arg[c].start \in {0, 1})
          /\ (type \in Edited => ans[c].rows \in Text)
      BY <1>3, <2>1, <3>1 DEF SentWith, AnsweredWith, ValueLoaded, Ends, Answered
    <3>3. type \in Edited => rows' = ans[c].rows
      BY <2>1 DEF ValueLoaded, Edited
    <3>4. filled' \in BOOLEAN
      BY <2>1 DEF ValueLoaded, Fills
    <3> QED
      BY <3>1, <3>2, <3>3, <3>4 DEF ValuesTypeOK
  <2>2. CASE TextSaved(c)
    BY <2>2 DEF TextSaved, ValuesTypeOK, Editor
  <2>3. CASE ElementSaved(c) \/ PartRemoved(c)
    <3>1. type \notin Edited
      BY <1>3, <2>3 DEF ElementSaved, PartRemoved, Ends, Answered, SentWith, Edited
    <3> QED
      BY <2>3, <3>1 DEF ElementSaved, PartRemoved, ValuesTypeOK, Editor
  <2>4. CASE TTLRefreshed(c)
    <3>1. op[c] = "getTTL" /\ ans[c].ttl \in 0..MaxTTL \cup {None}
      BY <1>3, <2>4 DEF AnsweredWith, TTLRefreshed, Ends, Answered
    <3> QED
      BY <2>4, <3>1 DEF TTLRefreshed, ValuesTypeOK, Editor
  <2>5. CASE ValueFails(c)
    <3>1. type = "string" => <<0>> \in Text
      BY Strings DEF Text
    <3>2. type = "hash" => Nothing \in Text
      BY DEF Text
    <3> QED
      BY <2>5, <3>1, <3>2 DEF ValueFails, ValuesTypeOK, Editor, Edited
  <2> QED
    BY <2>1, <2>2, <2>3, <2>4, <2>5
<1> QED
  <2>1. Editor'
    BY <1>1, <1>10 DEF Editor, Text, Edited, ValuesOf
  <2>2. ValuesTypeOK'
    BY <1>1, <1>9, <1>10 DEF ValuesTypeOK
  <2>3. Unopened'
    BY <1>1, <1>2 DEF Unopened
  <2>4. Room'
    BY <1>1, <1>8 DEF Room, Pending, Out, Only
  <2> QED
    BY <1>1, <1>5, <1>7, <2>1, <2>2, <2>3, <2>4

LEMMA ValuesStep == ValuesInv /\ ValuesNext => ValuesInv'
  BY ValuesClick, ValuesShown, ValuesAsks, ValuesRead, ValuesWrite, ValuesTTL, ValuesGoOn,
     ValuesEnds DEF ValuesNext, Asks

-----------------------------------------------------------------------------
(***************************************************************************)
(* What the panel shows, as long as requests neither cross nor fail: what  *)
(* is on screen, or will be once the request that is out has ended, is     *)
(* what the server has.                                                    *)
(***************************************************************************)
ValueOut == {c \in Out : op[c] \notin OnTTL}
TTLOut == {c \in Out : op[c] \in OnTTL}

\* The rows r are those the server has for a window, or pages, that start at s.
InWindow(r, s) ==
    /\ type = "list" => r = GetList(stored, s, s + WindowSize - 1)
    /\ type \in {"set", "zset"} => r \subseteq DOMAIN stored
    /\ type = "set" /\ s = 1 => DOMAIN stored \cap EarlyParts \subseteq r
    /\ type = "set" /\ s = 0 => DOMAIN stored \subseteq r

\* The rows and their start once c has ended.
RowsAfter(c) ==
    CASE op[c] = "getValue" ->
            IF type = "set" /\ arg[c].start # 0 THEN rows \cup ans[c].rows ELSE ans[c].rows
      [] op[c] = "setElement" ->
            [i \in DOMAIN rows |-> IF i = arg[c].row THEN arg[c].to ELSE rows[i]]
      [] op[c] = "removePart" -> rows \ {arg[c].part}
      [] OTHER -> rows
StartAfter(c) ==
    IF op[c] # "getValue" THEN start
    ELSE IF type = "set" THEN 1 - arg[c].start ELSE arg[c].start

\* All the rows are loaded again.
Reloads(c) == op[c] = "getValue" /\ pc[c] = "sent" /\ (type = "set" => arg[c].start = 0)

Tracks ==
    /\ ValueOut = {} /\ rows # None => InWindow(rows, start)
    /\ \A c \in ValueOut :
          /\ pc[c] = "sent" /\ ~Reloads(c) /\ rows # None => InWindow(rows, start)
          /\ pc[c] = "served" /\ op[c] # "add" => InWindow(RowsAfter(c), StartAfter(c))

\* A TTL of zero has deleted the key, and the TTL that is asked for now will
\* not be found.
Gone ==
    /\ stored = Nothing
    /\ \E d \in Out : \/ op[d] = "setTTL" /\ pc[d] = "served"
                      \/ op[d] = "getTTL" /\ pc[d] = "sent"

TTLKnown ==
    /\ dropped => expiry = 0
    /\ \A d \in Out : op[d] = "getTTL" /\ pc[d] = "served" => dropped \/ ans[d].ttl = expiry
    /\ panel /\ TTLOut = {} => dropped \/ label = expiry

\* One request works on the value at a time, and one on the TTL.
OnePerKind == \A c \in Out : \A d \in Out : (op[c] \in OnTTL <=> op[d] \in OnTTL) => c = d

InStep ==
    /\ OnePerKind
    /\ \A c \in Out : AskedFor(op[c], arg[c])
    /\ opened # None => rows # None
    /\ TTLKnown
    /\ Gone \/ Tracks
-----------------------------------------------------------------------------
\* Nothing is claimed of the rows of a text, so what it is edited to is in step.
LEMMA TextTracks == type \in Edited => Tracks
  BY DEF Tracks, InWindow, Edited

\* The rows stay in step while only the requests about the TTL go on.
LEMMA TracksKept ==
  ASSUME Tracks, UNCHANGED <<stored, type, rows, start>>, ValueOut' = ValueOut,
         \A d \in ValueOut : UNCHANGED <<op[d], pc[d], arg[d], ans[d]>>
  PROVE  Tracks'
<1>1. ASSUME NEW r, NEW s
      PROVE  (InWindow(r, s) <=> InWindow(r, s)') 
  BY DEF InWindow, GetList
<1>2. ASSUME NEW d \in ValueOut
      PROVE  /\ Reloads(d)' = Reloads(d) /\ RowsAfter(d)' = RowsAfter(d)
             /\ StartAfter(d)' = StartAfter(d)
  BY <1>2 DEF Reloads, RowsAfter, StartAfter
<1> QED
  BY <1>1, <1>2 DEF Tracks

\* A request about the value leaves those about the TTL alone, and the other
\* way round.
LEMMA OthersOnTTL ==
  ASSUME NEW c \in Calls, Only(c), op[c] \notin OnTTL \/ pc[c] = "idle",
         op'[c] \notin OnTTL \/ pc'[c] = "idle"
  PROVE  /\ TTLOut' = TTLOut
         /\ \A d \in TTLOut : d # c /\ UNCHANGED <<op[d], pc[d], arg[d], ans[d]>>
         /\ Gone /\ stored' = stored => Gone'
<1>1. \A d \in TTLOut : d # c /\ d \in Calls /\ UNCHANGED <<op[d], pc[d], arg[d], ans[d]>>
  BY DEF TTLOut, Out, Only
<1>2. TTLOut' = TTLOut
  BY <1>1 DEF TTLOut, Out, Only
<1>3. ASSUME Gone, stored' = stored
      PROVE  Gone'
  <2>1. PICK d \in Out : (op[d] = "setTTL" /\ pc[d] = "served") \/ (op[d] = "getTTL" /\ pc[d] = "sent")
    BY <1>3 DEF Gone
  <2>2. d \in TTLOut
    BY <2>1 DEF TTLOut, OnTTL
  <2>3. d \in Out' /\ op'[d] = op[d] /\ pc'[d] = pc[d]
    BY <1>1, <2>2 DEF Out
  <2> QED
    BY <1>3, <2>1, <2>3 DEF Gone
<1> QED
  BY <1>1, <1>2, <1>3

LEMMA OthersOnValue ==
  ASSUME NEW c \in Calls, Only(c), op[c] \in OnTTL \/ pc[c] = "idle",
         op'[c] \in OnTTL \/ pc'[c] = "idle"
  PROVE  /\ ValueOut' = ValueOut
         /\ \A d \in ValueOut : d # c /\ UNCHANGED <<op[d], pc[d], arg[d], ans[d]>>
<1>1. \A d \in ValueOut : d # c /\ d \in Calls /\ UNCHANGED <<op[d], pc[d], arg[d], ans[d]>>
  BY DEF ValueOut, Out, Only
<1> QED
  BY <1>1 DEF ValueOut, Out, Only

\* Only c's kind of request changes, so there is still one of each.
LEMMA StillOne ==
  ASSUME OnePerKind, NEW c \in Out, Only(c),
         pc'[c] = "idle" \/ (op'[c] \in OnTTL <=> op[c] \in OnTTL)
  PROVE  OnePerKind'
<1>1. \A d \in Out' : d \in Out /\ (op'[d] \in OnTTL <=> op[d] \in OnTTL)
  BY DEF Out, Only
<1> QED
  BY <1>1 DEF OnePerKind

-----------------------------------------------------------------------------
LEMMA ClickInStep ==
  ASSUME ValuesInv, InStep, ~vague',
         \/ Expires
         \/ \E v \in ValuesOf(type) \cup IF type = "string" THEN {} ELSE {Nothing} : EditText(v)
         \/ \E i \in 1..WindowSize, d \in Texts : StartElement(i, d)
         \/ CancelElement
  PROVE  InStep'
<1> USE DEF requestVars
<1>1. UNCHANGED <<op, pc, arg, ans, stored, type, expiry, panel, start, label, dropped>>
  BY DEF Expires, EditText, StartElement, CancelElement
<1>2. Out' = Out /\ ValueOut' = ValueOut /\ TTLOut' = TTLOut
  BY <1>1 DEF Out, ValueOut, TTLOut
<1>3. OnePerKind' /\ TTLKnown' /\ Gone' = Gone
  BY <1>1, <1>2 DEF InStep, OnePerKind, TTLKnown, Gone
<1>4. CASE type \in Edited
  <2>1. Tracks'
    BY <1>1, <1>4, TextTracks DEF Edited, Tracks, InWindow
  <2>2. opened' = None
    BY <1>4 DEF ValuesInv, Editor, Edited, EditText, StartElement, CancelElement, Expires
  <2>3. ASSUME NEW d \in Out
        PROVE  AskedFor(op[d], arg[d])'
    <3>1. op[d] \notin {"setElement", "removePart"}
      BY <1>4 DEF ValuesInv, ValueRequest, SentWith, Edited, Out
    <3> QED
      BY <1>1, <1>4, <3>1 DEF AskedFor, Edited
  <2> QED
    BY <1>2, <1>3, <2>1, <2>2, <2>3 DEF InStep
<1>5. CASE type \notin Edited
  <2>1. rows' = rows /\ (opened' # None => rows # None)
    BY <1>5 DEF Expires, EditText, StartElement, CancelElement, Edited, InStep
  <2>2. \A d \in Out : AskedFor(op[d], arg[d])'
    BY <1>1, <2>1 DEF InStep, AskedFor
  <2>3. Tracks => Tracks'
    BY <1>1, <1>2, <2>1, TracksKept
  <2> QED
    BY <1>2, <1>3, <2>1, <2>2, <2>3 DEF InStep
<1> QED
  BY <1>4, <1>5

LEMMA ShownInStep ==
  ASSUME ValuesInv, InStep, NEW c \in Calls, NEW d \in Calls, ShowPanel(c, d)
  PROVE  InStep'
<1>1. /\ op' = [op EXCEPT ![c] = "getValue", ![d] = "getTTL"]
      /\ pc' = [pc EXCEPT ![c] = "sent", ![d] = "sent"]
      /\ arg' = [arg EXCEPT ![c] = LoadArg(0, {"loading"}), ![d] = [last |-> {}]]
      /\ UNCHANGED <<rows, opened, expiry, dropped>> /\ c # d
      /\ Out = {} /\ rows = None /\ opened = None
  BY DEF ShowPanel, ValuesInv, Unopened
<1>2. /\ op'[c] = "getValue" /\ pc'[c] = "sent" /\ arg'[c] = LoadArg(0, {"loading"})
      /\ op'[d] = "getTTL" /\ pc'[d] = "sent"
  BY <1>1 DEF ValuesInv, Shape
<1>3. Out' = {c, d}
  <2>1. \A e \in Calls : pc[e] = "idle"
    BY <1>1 DEF Out
  <2> QED
    BY <1>1, <1>2, <2>1 DEF Out, ValuesInv, Shape
<1>4. ValueOut' = {c} /\ TTLOut' = {d}
  BY <1>2, <1>3 DEF ValueOut, TTLOut, OnTTL
<1>5. Reloads(c)' /\ AskedFor(op[c], arg[c])' /\ AskedFor(op[d], arg[d])'
  BY <1>2 DEF Reloads, AskedFor, LoadArg
<1>6. OnePerKind' /\ TTLKnown' /\ Tracks'
  BY <1>1, <1>2, <1>3, <1>4, <1>5 DEF InStep, OnePerKind, TTLKnown, Tracks, OnTTL
<1> QED
  BY <1>1, <1>3, <1>5, <1>6 DEF InStep

LEMMA AsksInStep ==
  ASSUME ValuesInv, InStep, ~vague', NEW c \in Calls, Asks(c)
  PROVE  InStep'
<1>1. PICK o, a : Asked(c, o, a)
  BY AskedWith
<1>2. /\ Shape' /\ Only(c)
      /\ pc[c] = "idle" /\ pc'[c] = "sent" /\ op'[c] = o /\ arg'[c] = a
      /\ UNCHANGED <<stored, type, expiry, kept, dropped>>
  BY <1>1, AskFacts DEF Asked, ValuesInv
<1>3. /\ UNCHANGED <<panel, rows, start, opened, label>> /\ AskedFor(o, a)
  BY <1>1 DEF Asked, Raises, InStep
<1>4. c \notin Out /\ Out' = Out \cup {c}
      /\ \A d \in Out : d # c /\ UNCHANGED <<op[d], pc[d], arg[d], ans[d]>>
  BY <1>2 DEF Out, Only
<1>5. \A d \in Out : (op[d] \in OnTTL <=> o \notin OnTTL)
  <2>1. ~Beside(c, o)
    BY <1>1 DEF Asked, Ask
  <2> QED
    BY <1>4, <2>1 DEF Beside
<1>6. OnePerKind'
  BY <1>2, <1>4, <1>5 DEF InStep, OnePerKind
<1>7. \A d \in Out' : AskedFor(op[d], arg[d])'
  BY <1>2, <1>3, <1>4 DEF InStep, AskedFor
<1>8. TTLKnown'
  <2>1. TTLOut \subseteq TTLOut'
    BY <1>4 DEF TTLOut
  <2> QED
    BY <1>2, <1>3, <1>4, <2>1 DEF InStep, TTLKnown
<1>9. (Gone \/ Tracks)'
  <2>1. CASE o \in OnTTL
    <3>1. Tracks => Tracks'
      BY <1>2, <1>3, <2>1, OthersOnValue, TracksKept
    <3>2. Gone => Gone'
      BY <1>2, <1>4 DEF Gone
    <3> QED
      BY <3>1, <3>2 DEF InStep
  <2>2. CASE o \notin OnTTL
    <3>1. Gone => Gone'
      BY <1>2, <2>2, OthersOnTTL
    <3>2. ASSUME Tracks
          PROVE  Tracks'
      <4>1. ValueOut = {} /\ ValueOut' = {c}
        BY <1>2, <1>4, <1>5, <2>2 DEF ValueOut
      <4>2. rows # None => InWindow(rows, start)'
        BY <1>2, <1>3, <3>2, <4>1 DEF Tracks, InWindow, GetList
      <4> QED
        BY <1>2, <1>3, <4>1, <4>2 DEF Tracks
    <3> QED
      BY <3>1, <3>2 DEF InStep
  <2> QED
    BY <2>1, <2>2
<1> QED
  BY <1>3, <1>6, <1>7, <1>8, <1>9 DEF InStep

-----------------------------------------------------------------------------
\* A request about the value is served: the key has gone, or the rows that
\* will be shown are in step with what is stored from now on.
LEMMA ServedInStep ==
  ASSUME ValuesInv, InStep, NEW c \in Calls, NEW o, NEW r, Serve(c, o, "sent", r),
         o \notin OnTTL, UNCHANGED <<type, screen>>,
         UNCHANGED <<expiry, dropped>> \/ (expiry' = 0 /\ dropped' = TRUE),
         \/ Gone /\ stored' = stored
         \/ o = "add"
         \/ type \in Edited
         \/ ~Gone /\ InWindow(RowsAfter(c), StartAfter(c))'
  PROVE  InStep'
<1>1. /\ Shape' /\ Only(c) /\ UNCHANGED <<op, arg>>
      /\ op[c] = o /\ pc[c] = "sent" /\ pc'[c] = "served" /\ ans'[c] = r
  BY ServeFacts DEF ValuesInv
<1>2. c \in Out /\ Out' = Out /\ ValueOut' = ValueOut /\ TTLOut' = TTLOut /\ c \in ValueOut
  BY <1>1 DEF Out, ValueOut, TTLOut, Only
<1>3. ValueOut = {c}
  BY <1>2 DEF InStep, OnePerKind, ValueOut
<1>4. OnePerKind'
  BY <1>1, <1>2 DEF InStep, OnePerKind
<1>5. \A d \in Out' : AskedFor(op[d], arg[d])'
  BY <1>1, <1>2 DEF InStep, AskedFor, screen
<1>6. TTLKnown'
  <2>1. \A d \in Out : op[d] = "getTTL" => d # c /\ UNCHANGED <<op[d], pc[d], ans[d]>>
    BY <1>1 DEF Only, Out, OnTTL
  <2> QED
    BY <1>1, <1>2, <2>1 DEF InStep, TTLKnown, screen
<1>7. (Gone \/ Tracks)'
  <2>1. CASE Gone /\ stored' = stored
    BY <1>1, <2>1, OthersOnTTL
  <2>2. CASE o = "add"
    BY <1>1, <1>2, <1>3, <2>2 DEF Tracks
  <2>3. CASE type \in Edited
    BY <2>3 DEF Tracks, InWindow, Edited
  <2>4. CASE InWindow(RowsAfter(c), StartAfter(c))'
    BY <1>1, <1>2, <1>3, <2>4 DEF Tracks
  <2> QED
    BY <2>1, <2>2, <2>3, <2>4
<1> QED
  BY <1>2, <1>4, <1>5, <1>6, <1>7 DEF InStep, screen

\* A window is read.
LEMMA ReadInStep ==
  ASSUME ValuesInv, InStep, NEW c \in Calls,
         \/ GetRedisString(c) \/ GetRedisHash(c) \/ GetRedisList(c) \/ GetRedisSet(c)
         \/ GetRedisSortedSet(c)
  PROVE  InStep'
<1> DEFINE r ==
      CASE type = "string" -> GetString(stored)
        [] type = "hash" -> GetHash(stored)
        [] type = "list" -> GetList(stored, arg[c].start, WindowEnd(c))
        [] type = "set" -> GetSet(stored, arg[c].start)
        [] OTHER -> GetSortedSet(stored, arg[c].start, WindowEnd(c))
<1>1. Serve(c, "getValue", "sent", [rows |-> r]) /\ UNCHANGED valueVars
  <2>1. GetRedisString(c) \/ GetRedisHash(c) => Serve(c, "getValue", "sent", [rows |-> r])
    BY DEF GetRedisString, GetRedisHash, Reads
  <2>2. GetRedisList(c) \/ GetRedisSet(c) => Serve(c, "getValue", "sent", [rows |-> r])
    BY DEF GetRedisList, GetRedisSet, Reads
  <2>3. GetRedisSortedSet(c) => Serve(c, "getValue", "sent", [rows |-> r])
    BY DEF GetRedisSortedSet, Reads
  <2>4. UNCHANGED valueVars
    BY DEF GetRedisString, GetRedisHash, GetRedisList, GetRedisSet, GetRedisSortedSet, Reads
  <2> QED
    BY <2>1, <2>2, <2>3, <2>4
<1>2. /\ Only(c) /\ UNCHANGED <<op, arg>>
      /\ op[c] = "getValue" /\ pc[c] = "sent" /\ ans'[c] = [rows |-> r]
  BY <1>1, ServeFacts DEF ValuesInv
<1>3. UNCHANGED <<stored, type, expiry, dropped, screen, rows, start>>
  BY <1>1 DEF valueVars, screen
<1>4. c \in Out /\ c \in ValueOut /\ AskedFor("getValue", arg[c]) /\ SentWith("getValue", arg[c])
  BY <1>2 DEF Out, ValueOut, OnTTL, InStep, ValuesInv, ValueRequest
<1>5. ans'[c].rows = r
  BY <1>2
<1>6. CASE type \in Edited
  BY <1>1, <1>3, <1>6, ServedInStep DEF OnTTL
<1>7. CASE Gone
  BY <1>1, <1>3, <1>7, ServedInStep DEF OnTTL
<1>8. CASE type = "list" /\ ~Gone
  <2>1. RowsAfter(c)' = GetList(stored, arg[c].start, WindowEnd(c))
        /\ StartAfter(c)' = arg[c].start
    BY <1>2, <1>3, <1>5, <1>8 DEF RowsAfter, StartAfter
  <2>2. InWindow(RowsAfter(c), StartAfter(c))'
    BY <1>3, <1>8, <2>1 DEF InWindow, WindowEnd, GetList
  <2> HIDE DEF r
  <2> QED
    BY <1>1, <1>3, <1>8, <2>2, ServedInStep DEF OnTTL
<1>9. CASE type = "zset" /\ ~Gone
  <2>1. RowsAfter(c)' = GetSortedSet(stored, arg[c].start, WindowEnd(c))
    BY <1>2, <1>3, <1>5, <1>9 DEF RowsAfter
  <2>2. InWindow(RowsAfter(c), StartAfter(c))'
    BY <1>3, <1>9, <2>1 DEF InWindow, GetSortedSet
  <2> HIDE DEF r
  <2> QED
    BY <1>1, <1>3, <1>9, <2>2, ServedInStep DEF OnTTL
<1>10. CASE type = "set" /\ ~Gone
  <2>1. r = GetSet(stored, arg[c].start) /\ arg[c].start \in {0, 1}
    BY <1>4, <1>10 DEF SentWith
  <2>2. DOMAIN stored \subseteq Parts
    BY <1>10, Sets DEF ValuesInv, ValuesTypeOK
  <2>3. ASSUME arg[c].start = 0
        PROVE  InWindow(RowsAfter(c), StartAfter(c))'
    <3>1. RowsAfter(c)' = DOMAIN stored \cap EarlyParts /\ StartAfter(c)' = 1
      BY <1>2, <1>3, <1>5, <1>10, <2>1, <2>3 DEF RowsAfter, StartAfter, GetSet
    <3> QED
      BY <1>3, <1>10, <3>1 DEF InWindow
  <2>4. ASSUME arg[c].start = 1
        PROVE  InWindow(RowsAfter(c), StartAfter(c))'
    <3>1. RowsAfter(c)' = rows \cup (DOMAIN stored \cap (Parts \ EarlyParts)) /\ StartAfter(c)' = 0
      BY <1>2, <1>3, <1>5, <1>10, <2>1, <2>4 DEF RowsAfter, StartAfter, GetSet
    <3>2. InWindow(rows, 1)
      <4>1. rows # None /\ start = 1 /\ ~Reloads(c) /\ Tracks
        BY <1>4, <1>10, <2>4 DEF AskedFor, Reloads, InStep
      <4> QED
        BY <1>2, <1>4, <4>1 DEF Tracks
    <3>3. rows \subseteq DOMAIN stored /\ DOMAIN stored \cap EarlyParts \subseteq rows
      BY <1>10, <3>2 DEF InWindow
    <3> QED
      BY <1>3, <1>10, <2>2, <3>1, <3>3 DEF InWindow
  <2> HIDE DEF r
  <2> QED
    BY <1>1, <1>3, <1>10, <2>1, <2>3, <2>4, ServedInStep DEF OnTTL
<1>11. type \in Types
  BY DEF ValuesInv, ValuesTypeOK
<1> QED
  BY <1>6, <1>7, <1>8, <1>9, <1>10, <1>11 DEF Types, Edited

-----------------------------------------------------------------------------
\* LRANGE of a window, element by element.
LEMMA Window ==
  ASSUME NEW v \in Seq(Texts), NEW s \in Nat
  PROVE  LET n == IF s + WindowSize <= Len(v) THEN WindowSize
                  ELSE IF s < Len(v) THEN Len(v) - s ELSE 0
         IN  GetList(v, s, s + WindowSize - 1) = [i \in 1..n |-> v[s + i]]
<1> DEFINE n == IF s + WindowSize <= Len(v) THEN WindowSize
                ELSE IF s < Len(v) THEN Len(v) - s ELSE 0
           e == IF s + WindowSize - 1 < Len(v) THEN s + WindowSize - 1 + 1 ELSE Len(v)
           w == SubSeq(v, s + 1, e)
<1>1. WindowSize \in Nat \ {0} /\ Len(v) \in Nat
  BY ValuesAssumption
<1>2. e \in Int /\ e <= Len(v) /\ n \in Nat /\ n = (IF s + 1 <= e THEN e - (s + 1) + 1 ELSE 0)
  BY <1>1
<1>3. \A i \in (s + 1)..e : v[i] \in Texts
  <2>1. \A i \in 1..Len(v) : v[i] \in Texts
    BY ElementOfSeq
  <2> HIDE DEF e
  <2> QED
    BY <1>1, <1>2, <2>1
<1> HIDE DEF e, n
<1>4. /\ w \in Seq(Texts) /\ Len(w) = n
      /\ \A i \in 1..(e - (s + 1) + 1) : w[i] = v[(s + 1) + i - 1]
  <2>1. s + 1 \in Int
    OBVIOUS
  <2> QED
    BY <1>2, <1>3, <2>1, SubSeqProperties
<1>5. \A i \in 1..n : w[i] = v[s + i]
  <2> TAKE i \in 1..n
  <2>1. i \in 1..(e - (s + 1) + 1) /\ (s + 1) + i - 1 = s + i
    BY <1>2
  <2> QED
    BY <1>4, <2>1
<1>6. w = [i \in 1..n |-> v[s + i]]
  <2>1. w = [i \in 1..n |-> w[i]]
    BY <1>4, LenProperties
  <2> HIDE DEF w
  <2> QED
    BY <1>5, <2>1
<1> QED
  BY <1>6 DEF GetList, n, e

\* LSET changes the window as the row does.
RowEdited(r, k, d) == [i \in DOMAIN r |-> IF i = k THEN d ELSE r[i]]

LEMMA ElementInWindow ==
  ASSUME NEW v \in Seq(Texts), NEW s \in Nat, NEW k \in 1..WindowSize, s + k \in 1..Len(v),
         NEW d \in Texts
  PROVE  RowEdited(GetList(v, s, s + WindowSize - 1), k, d)
            = GetList(SetListElement(v, s + k - 1, d), s, s + WindowSize - 1)
<1> DEFINE n == IF s + WindowSize <= Len(v) THEN WindowSize
                ELSE IF s < Len(v) THEN Len(v) - s ELSE 0
           w == [v EXCEPT ![s + k] = d]
           r == GetList(v, s, s + WindowSize - 1)
<1>1. WindowSize \in Nat /\ Len(v) \in Nat /\ k \in Nat
  BY ValuesAssumption
<1>2. w \in Seq(Texts) /\ Len(w) = Len(v) /\ DOMAIN v = 1..Len(v)
  BY ExceptSeq, LenProperties
<1>3. SetListElement(v, s + k - 1, d) = w
  <2>1. s + k - 1 + 1 = s + k
    BY <1>1
  <2> QED
    BY <2>1 DEF SetListElement
<1> HIDE DEF w
<1>4. r = [i \in 1..n |-> v[s + i]] /\ GetList(w, s, s + WindowSize - 1) = [i \in 1..n |-> w[s + i]]
  BY <1>2, Window
<1>5. n \in Nat
  BY <1>1
<1>6. \A i \in 1..n : s + i \in 1..Len(v)
  BY <1>1
<1> HIDE DEF n, r
<1>7. \A i \in 1..n : w[s + i] = IF i = k THEN d ELSE v[s + i]
  <2> TAKE i \in 1..n
  <2>1. s + i \in DOMAIN v /\ (s + i = s + k <=> i = k)
    BY <1>1, <1>2, <1>5, <1>6
  <2> QED
    BY <2>1 DEF w
<1>8. DOMAIN r = 1..n /\ \A i \in 1..n : r[i] = v[s + i]
  BY <1>4
<1>9. [i \in 1..n |-> IF i = k THEN d ELSE r[i]] = [i \in 1..n |-> w[s + i]]
  BY <1>7, <1>8
<1>10. RowEdited(r, k, d) = [i \in 1..n |-> w[s + i]]
  BY <1>8, <1>9 DEF RowEdited
<1> QED
  BY <1>3, <1>4, <1>10 DEF r

\* A part is set, added or removed.
LEMMA WriteInStep ==
  ASSUME ValuesInv, InStep, NEW c \in Calls,
         \/ SetRedisString(c) \/ SetRedisHash(c) \/ PushRedisList(c) \/ SetRedisListElement(c)
         \/ AddRedisSetMembers(c) \/ RemoveRedisSetMembers(c)
         \/ AddRedisSortedSetMembers(c) \/ RemoveRedisSortedSetMembers(c)
  PROVE  InStep'
<1>1. ASSUME NEW o \in {"setValue", "setElement", "add", "removePart"}, NEW t, NEW v,
             Writes(c, o, t, v)
      PROVE  /\ Serve(c, o, "sent", None) /\ o \notin OnTTL /\ UNCHANGED <<type, screen>>
             /\ stored' = v /\ type = t
             /\ UNCHANGED <<expiry, dropped>> \/ (expiry' = 0 /\ dropped' = TRUE)
             /\ op[c] = o /\ pc[c] = "sent" /\ op' = op /\ arg' = arg
             /\ UNCHANGED <<rows, start>>
  <2>1. Serve(c, o, "sent", None)
    BY <1>1 DEF Writes
  <2>2. op[c] = o /\ pc[c] = "sent" /\ op' = op /\ arg' = arg
    BY <2>1, ServeFacts DEF ValuesInv
  <2>3. UNCHANGED <<expiry, dropped>> \/ (expiry' = 0 /\ dropped' = TRUE)
    <3>1. dropped' = (dropped \/ expiry' # expiry) /\ (expiry' = 0 \/ expiry' = expiry)
      BY <1>1 DEF Writes
    <3>2. dropped \in BOOLEAN
      BY DEF ValuesInv, ValuesTypeOK
    <3> QED
      BY <3>1, <3>2
  <2> QED
    BY <1>1, <2>1, <2>2, <2>3 DEF Writes, OnTTL, screen
<1>2. CASE SetRedisString(c) \/ SetRedisHash(c)
  <2>1. PICK t, v : Writes(c, "setValue", t, v) /\ t \in Edited
    BY <1>2 DEF SetRedisString, SetRedisHash, Edited
  <2> QED
    BY <1>1, <2>1, ServedInStep
<1>3. CASE PushRedisList(c) \/ AddRedisSetMembers(c) \/ AddRedisSortedSetMembers(c)
  <2>1. PICK t, v : Writes(c, "add", t, v)
    BY <1>3 DEF PushRedisList, AddRedisSetMembers, AddRedisSortedSetMembers
  <2> QED
    BY <1>1, <2>1, ServedInStep
<1>4. CASE SetRedisListElement(c)
  <2> DEFINE i == arg[c].index + 1
             d == arg[c].to
             k == arg[c].row
             v == SetListElement(stored, arg[c].index, d)
  <2>1. Writes(c, "setElement", "list", v)
    BY <1>4 DEF SetRedisListElement
  <2>2. op[c] = "setElement" /\ pc[c] = "sent" /\ type = "list" /\ stored' = v
        /\ UNCHANGED <<op, arg, rows, start, type>>
    BY <1>1, <2>1
  <2>3. c \in ValueOut /\ i \in DOMAIN stored /\ SentWith("setElement", arg[c])
    BY <1>4, <2>2 DEF SetRedisListElement, ValueOut, Out, OnTTL, ValuesInv, ValueRequest
  <2>4. rows # None /\ k \in 1..WindowSize /\ arg[c].index = start + k - 1
    BY <2>2, <2>3 DEF InStep, AskedFor, ValueOut
  <2>5. ~Gone
    BY <2>3, NothingIsEmpty DEF Gone
  <2>6. rows = GetList(stored, start, start + WindowSize - 1)
    BY <2>2, <2>3, <2>4, <2>5 DEF InStep, Tracks, Reloads, InWindow
  <2>7. stored \in Seq(Texts) /\ start \in Nat /\ d \in Texts
    BY <2>2, <2>3, Lists DEF ValuesInv, ValuesTypeOK, SentWith
  <2>8. i = start + k /\ DOMAIN stored = 1..Len(stored)
    <3>1. k \in Nat
      BY <2>4, ValuesAssumption
    <3> HIDE DEF k
    <3> QED
      BY <2>4, <2>7, <3>1, LenProperties
  <2>9. RowsAfter(c)' = RowEdited(rows, k, d) /\ StartAfter(c)' = start
    BY <2>2 DEF RowsAfter, StartAfter, RowEdited
  <2> HIDE DEF i, d, k
  <2>10. RowEdited(rows, k, d) = GetList(v, start, start + WindowSize - 1)
    <3>1. start + k \in 1..Len(stored) /\ v = SetListElement(stored, start + k - 1, d)
      BY <2>3, <2>4, <2>8
    <3> HIDE DEF v
    <3> QED
      BY <2>4, <2>6, <2>7, <3>1, ElementInWindow
  <2> HIDE DEF v
  <2>11. InWindow(RowsAfter(c), StartAfter(c))'
    BY <2>2, <2>9, <2>10 DEF InWindow
  <2> QED
    BY <1>1, <2>1, <2>5, <2>11, ServedInStep
<1>5. CASE RemoveRedisSetMembers(c) \/ RemoveRedisSortedSetMembers(c)
  <2> DEFINE m == arg[c].part
  <2>1. PICK t, v :
            /\ t \in {"set", "zset"}
            /\ Writes(c, "removePart", t, v) /\ DOMAIN v = DOMAIN stored \ {m}
            /\ v = [x \in DOMAIN v |-> v[x]]
    <3>1. CASE RemoveRedisSetMembers(c)
      BY <3>1 DEF RemoveRedisSetMembers, RemoveFromSet
    <3>2. CASE RemoveRedisSortedSetMembers(c)
      BY <3>2 DEF RemoveRedisSortedSetMembers, RemoveFromSortedSet
    <3> QED
      BY <1>5, <3>1, <3>2
  <2>2. op[c] = "removePart" /\ pc[c] = "sent" /\ type \in {"set", "zset"} /\ stored' = v
        /\ UNCHANGED <<op, arg, rows, start, type>>
    BY <1>1, <2>1
  <2>3. CASE Gone
    <3>1. v = Nothing
      BY <2>1, <2>3, NothingIsEmpty, EmptyValue DEF Gone
    <3> QED
      BY <1>1, <2>1, <2>3, <3>1, ServedInStep DEF Gone
  <2>4. CASE ~Gone
    <3>1. c \in ValueOut /\ rows # None
      BY <2>2 DEF ValueOut, Out, OnTTL, InStep, AskedFor
    <3>2. InWindow(rows, start)
      BY <2>2, <2>4, <3>1 DEF InStep, Tracks, Reloads
    <3>3. RowsAfter(c)' = rows \ {m} /\ StartAfter(c)' = start
      BY <2>2 DEF RowsAfter, StartAfter
    <3>4. InWindow(RowsAfter(c), StartAfter(c))'
      BY <2>1, <2>2, <3>2, <3>3 DEF InWindow
    <3> QED
      BY <1>1, <2>1, <2>4, <3>4, ServedInStep
  <2> QED
    BY <2>3, <2>4
<1> QED
  BY <1>2, <1>3, <1>4, <1>5

-----------------------------------------------------------------------------
\* The TTL is read, set or dropped.
LEMMA TTLInStep ==
  ASSUME ValuesInv, InStep, NEW c \in Calls,
         GetRedisTTL(c) \/ SetRedisTTL(c) \/ PersistRedisKey(c)
  PROVE  InStep'
<1>1. PICK o, r :
         o \in OnTTL /\ Serve(c, o, "sent", r) /\ UNCHANGED <<type, screen>>
         /\ (o = "getTTL" => r = [ttl |-> expiry] /\ stored # Nothing)
         /\ (o # "setTTL" => stored' = stored) /\ (stored' = stored \/ stored' = Nothing)
         /\ (o = "getTTL" => expiry' = expiry) /\ dropped' = FALSE
  <2>1. CASE GetRedisTTL(c)
    BY <2>1 DEF GetRedisTTL, OnTTL, TTL, screen
  <2>2. CASE SetRedisTTL(c)
    BY <2>2 DEF SetRedisTTL, OnTTL
  <2>3. CASE PersistRedisKey(c)
    BY <2>3 DEF PersistRedisKey, OnTTL
  <2> QED
    BY <2>1, <2>2, <2>3
<1>2. /\ Shape' /\ Only(c) /\ UNCHANGED <<op, arg>>
      /\ op[c] = o /\ pc[c] = "sent" /\ pc'[c] = "served" /\ ans'[c] = r
  BY <1>1, ServeFacts DEF ValuesInv
<1>3. c \in Out /\ Out' = Out /\ TTLOut' = TTLOut /\ c \in TTLOut
  BY <1>1, <1>2 DEF Out, TTLOut, Only
<1>4. TTLOut = {c}
  BY <1>3 DEF InStep, OnePerKind, TTLOut
<1>5. OnePerKind'
  BY <1>2, <1>3 DEF InStep, OnePerKind
<1>6. \A d \in Out' : AskedFor(op[d], arg[d])'
  BY <1>1, <1>2, <1>3 DEF InStep, AskedFor, screen
<1>7. TTLKnown'
  <2>1. \A d \in Out : op[d] = "getTTL" => d = c
    BY <1>4 DEF TTLOut, OnTTL
  <2> QED
    BY <1>1, <1>2, <1>3, <2>1 DEF TTLKnown
<1>8. (Gone \/ Tracks)'
  <2>1. CASE o = "setTTL" /\ stored' = Nothing
    BY <1>2, <1>3, <2>1 DEF Gone
  <2>2. CASE stored' = stored /\ Gone
    <3>1. o \notin {"getTTL", "persist"}
      BY <1>1, <1>2, <1>4, <2>2 DEF Gone, TTLOut, OnTTL
    <3> QED
      BY <1>1, <1>2, <1>3, <2>2, <3>1 DEF Gone, OnTTL
  <2>3. CASE stored' = stored /\ Tracks
    BY <1>1, <1>2, <2>3, OthersOnValue, TracksKept DEF screen
  <2> QED
    BY <1>1, <2>1, <2>2, <2>3 DEF InStep
<1> QED
  BY <1>1, <1>3, <1>5, <1>6, <1>7, <1>8 DEF InStep, screen

\* A handler goes on to load the rows, or the TTL, again.
LEMMA GoOnInStep ==
  ASSUME ValuesInv, InStep, NEW c \in Calls, PartAdded(c) \/ TTLChanged(c)
  PROVE  InStep'
<1>1. /\ UNCHANGED <<stored, type, expiry, dropped, panel, rows, start, opened, label>>
      /\ Shape' /\ Only(c) /\ pc[c] = "served" /\ pc'[c] = "sent"
  BY DEF PartAdded, TTLChanged, GoOn, Shape, Only, screen, ValuesInv
<1>2. c \in Out /\ Out' = Out
  BY <1>1 DEF Out, Only
<1>3. CASE PartAdded(c)
  <2> DEFINE s == IF type = "set" THEN 0 ELSE arg[c].start
  <2>1. op[c] = "add" /\ op'[c] = "getValue" /\ arg'[c] = LoadArg(s, {"loading", "adding"})
    BY <1>3 DEF PartAdded, GoOn, ValuesInv, Shape
  <2>2. Reloads(c)' /\ AskedFor(op[c], arg[c])'
    BY <1>1, <2>1 DEF Reloads, AskedFor, LoadArg
  <2>3. TTLOut' = TTLOut /\ \A d \in TTLOut : d # c /\ UNCHANGED <<op[d], pc[d], arg[d], ans[d]>>
    BY <1>1, <2>1, OthersOnTTL DEF OnTTL
  <2>4. OnePerKind'
    BY <1>1, <1>2, <2>1, StillOne DEF InStep, OnTTL
  <2>5. ValueOut' = {c}
    BY <1>2, <2>1, <2>4 DEF OnePerKind, ValueOut, OnTTL
  <2>6. Tracks'
    BY <1>1, <2>2, <2>5 DEF Tracks
  <2>7. \A d \in Out' : AskedFor(op[d], arg[d])'
    BY <1>1, <1>2, <2>2 DEF InStep, AskedFor, Only, Out
  <2>8. TTLKnown'
    <3>1. \A d \in Out' : op'[d] = "getTTL" => d \in TTLOut
      BY <2>3 DEF TTLOut, OnTTL
    <3>2. \A d \in TTLOut : d \in Out
      BY DEF TTLOut
    <3> QED
      BY <1>1, <2>3, <3>1, <3>2 DEF InStep, TTLKnown
  <2> QED
    BY <1>1, <2>4, <2>6, <2>7, <2>8 DEF InStep
<1>4. CASE TTLChanged(c)
  <2>1. op[c] \in {"setTTL", "persist"} /\ op'[c] = "getTTL"
    BY <1>4 DEF TTLChanged, GoOn, ValuesInv, Shape
  <2>2. OnePerKind'
    BY <1>1, <1>2, <2>1, StillOne DEF InStep, OnTTL
  <2>3. c \in TTLOut'
    BY <1>2, <2>1 DEF TTLOut, OnTTL
  <2>4. \A d \in Out' : AskedFor(op[d], arg[d])'
    BY <1>1, <1>2, <2>1 DEF InStep, AskedFor, Only, Out
  <2>5. TTLKnown'
    <3>1. \A d \in Out' : op'[d] = "getTTL" => d = c
      BY <2>2, <2>3 DEF OnePerKind, TTLOut, OnTTL
    <3> QED
      BY <1>1, <2>3, <3>1 DEF InStep, TTLKnown
  <2>6. Tracks => Tracks'
    BY <1>1, <2>1, OthersOnValue, TracksKept DEF OnTTL
  <2>7. Gone => Gone'
    BY <1>1, <1>2, <2>1 DEF Gone
  <2> QED
    BY <1>1, <2>2, <2>4, <2>5, <2>6, <2>7 DEF InStep
<1> QED
  BY <1>3, <1>4

\* A handler ends: what it shows is what was to be shown.
LEMMA EndsInStep ==
  ASSUME ValuesInv, InStep, ~vague', NEW c \in Calls,
         \/ ValueLoaded(c) \/ TextSaved(c) \/ ElementSaved(c) \/ PartRemoved(c) \/ TTLRefreshed(c)
         \/ ValueFails(c)
  PROVE  InStep'
<1>1. /\ Only(c) /\ pc[c] = "served" /\ pc'[c] = "idle"
      /\ UNCHANGED <<stored, type, expiry, dropped, panel>>
  BY DEF ValueLoaded, TextSaved, ElementSaved, PartRemoved, TTLRefreshed, ValueFails, Ends, Answered,
         Return, Only, ValuesInv, Shape
<1>2. c \in Out /\ Out' = Out \ {c} /\ OnePerKind'
  BY <1>1, StillOne DEF Out, Only, InStep
<1>3. CASE TTLRefreshed(c)
  <2>1. op[c] = "getTTL" /\ label' = ans[c].ttl /\ UNCHANGED <<rows, start, opened>>
    BY <1>3 DEF TTLRefreshed, Ends, Answered
  <2>2. \A d \in Out : op[d] \in OnTTL => d = c
    BY <1>2, <2>1 DEF InStep, OnePerKind, OnTTL
  <2>3. Tracks
    BY <1>1, <2>1, <2>2 DEF InStep, Gone, OnTTL
  <2>4. Tracks'
    BY <1>1, <2>1, <2>3, OthersOnValue, TracksKept DEF OnTTL
  <2>5. \A d \in Out' : AskedFor(op[d], arg[d])'
    BY <1>1, <1>2, <2>1 DEF InStep, AskedFor, Only, Out
  <2>6. TTLKnown'
    BY <1>1, <1>2, <2>1, <2>2 DEF InStep, TTLKnown, Only, Out, OnTTL
  <2> QED
    BY <1>2, <2>1, <2>4, <2>5, <2>6 DEF InStep
<1>4. CASE ~TTLRefreshed(c)
  <2>1. /\ op[c] \in {"getValue", "setValue", "setElement", "removePart"}
        /\ label' = label
        /\ rows' = RowsAfter(c) /\ start' = StartAfter(c)
    <3>1. CASE ValueLoaded(c)
      BY <3>1 DEF ValueLoaded, Ends, Answered, RowsAfter, StartAfter
    <3>2. CASE TextSaved(c)
      BY <3>2 DEF TextSaved, Ends, Answered, RowsAfter, StartAfter
    <3>3. CASE ElementSaved(c)
      BY <3>3 DEF ElementSaved, Ends, Answered, RowsAfter, StartAfter
    <3>4. CASE PartRemoved(c)
      BY <3>4 DEF PartRemoved, Ends, Answered, RowsAfter, StartAfter
    <3>5. ~ValueFails(c)
      BY DEF ValueFails
    <3> QED
      BY <1>4, <3>1, <3>2, <3>3, <3>4, <3>5
  <2>2. c \in ValueOut /\ op[c] \notin OnTTL
    BY <1>2, <2>1 DEF ValueOut, OnTTL
  <2>3. \A d \in Out' : d # c /\ d \in Out /\ op[d] \in OnTTL /\ UNCHANGED <<op[d], pc[d], arg[d], ans[d]>>
    BY <1>1, <1>2, <2>2 DEF InStep, OnePerKind, Only, Out
  <2>4. \A d \in Out' : AskedFor(op[d], arg[d])'
    BY <2>3 DEF AskedFor, OnTTL
  <2>5. TTLOut' = TTLOut /\ (Gone => Gone')
    BY <1>1, <2>2, OthersOnTTL
  <2>6. TTLKnown'
    BY <1>1, <2>1, <2>3, <2>5 DEF InStep, TTLKnown
  <2>7. Tracks => Tracks'
    <3>1. ASSUME Tracks
          PROVE  InWindow(rows, start)'
      <4>1. InWindow(RowsAfter(c), StartAfter(c))
        BY <1>1, <2>1, <2>2, <3>1 DEF Tracks
      <4> QED
        BY <1>1, <2>1, <4>1 DEF InWindow, GetList
    <3>2. ValueOut' = {}
      BY <2>3 DEF ValueOut
    <3> QED
      BY <3>1, <3>2 DEF Tracks
  <2>8. opened' # None => rows' # None
    <3>1. CASE ValueLoaded(c) \/ ElementSaved(c)
      BY <3>1 DEF ValueLoaded, ElementSaved
    <3>2. CASE TextSaved(c)
      BY <3>2 DEF TextSaved, InStep
    <3>3. CASE PartRemoved(c)
      <4>1. opened' = opened /\ SentWith("removePart", arg[c])
        BY <1>1, <3>3 DEF PartRemoved, Ends, Answered, ValuesInv, ValueRequest
      <4> QED
        BY <4>1 DEF SentWith, ValuesInv, Editor
    <3>4. ~ValueFails(c)
      BY DEF ValueFails
    <3> QED
      BY <1>4, <3>1, <3>2, <3>3, <3>4
  <2> QED
    BY <1>2, <2>4, <2>5, <2>6, <2>7, <2>8 DEF InStep
<1> QED
  BY <1>3, <1>4

LEMMA StepInStep ==
  ASSUME ValuesInv, ~vague => InStep, ValuesNext, ~vague'
  PROVE  InStep'
<1> USE DEF valueVars
<1>1. CASE \/ Expires
           \/ \E v \in ValuesOf(type) \cup IF type = "string" THEN {} ELSE {Nothing} : EditText(v)
           \/ \E i \in 1..WindowSize, d \in Texts : StartElement(i, d)
           \/ CancelElement
  <2>1. ~vague
    BY <1>1 DEF Expires, EditText, StartElement, CancelElement
  <2> QED
    BY <1>1, <2>1, ClickInStep
<1>2. ASSUME NEW c \in Calls, NEW d \in Calls, ShowPanel(c, d)
      PROVE  InStep'
  BY <1>2, ShownInStep DEF ShowPanel
<1>3. ASSUME NEW c \in Calls, Asks(c)
      PROVE  InStep'
  <2>1. PICK o, a : Asked(c, o, a)
    BY <1>3, AskedWith
  <2>2. ~vague
    BY <2>1 DEF Asked, Ask
  <2> QED
    BY <1>3, <2>2, AsksInStep
<1>4. ASSUME NEW c \in Calls,
             \/ GetRedisString(c) \/ GetRedisHash(c) \/ GetRedisList(c) \/ GetRedisSet(c)
             \/ GetRedisSortedSet(c)
      PROVE  InStep'
  <2>1. vague' = vague
    BY <1>4 DEF GetRedisString, GetRedisHash, GetRedisList, GetRedisSet, GetRedisSortedSet, Reads,
                Serve
  <2> QED
    BY <1>4, <2>1, ReadInStep
<1>5. ASSUME NEW c \in Calls,
             \/ SetRedisString(c) \/ SetRedisHash(c) \/ PushRedisList(c) \/ SetRedisListElement(c)
             \/ AddRedisSetMembers(c) \/ RemoveRedisSetMembers(c)
             \/ AddRedisSortedSetMembers(c) \/ RemoveRedisSortedSetMembers(c)
      PROVE  InStep'
  <2>1. vague' = vague
    BY <1>5 DEF SetRedisString, SetRedisHash, PushRedisList, SetRedisListElement,
                AddRedisSetMembers, RemoveRedisSetMembers, AddRedisSortedSetMembers,
                RemoveRedisSortedSetMembers, Writes, Serve
  <2> QED
    BY <1>5, <2>1, WriteInStep
<1>6. ASSUME NEW c \in Calls, GetRedisTTL(c) \/ SetRedisTTL(c) \/ PersistRedisKey(c)
      PROVE  InStep'
  <2>1. vague' = vague
    BY <1>6 DEF GetRedisTTL, SetRedisTTL, PersistRedisKey, Serve
  <2> QED
    BY <1>6, <2>1, TTLInStep
<1>7. ASSUME NEW c \in Calls, PartAdded(c) \/ TTLChanged(c)
      PROVE  InStep'
  <2>1. vague' = vague
    BY <1>7 DEF PartAdded, TTLChanged, GoOn
  <2> QED
    BY <1>7, <2>1, GoOnInStep
<1>8. ASSUME NEW c \in Calls,
             \/ ValueLoaded(c) \/ TextSaved(c) \/ ElementSaved(c) \/ PartRemoved(c)
             \/ TTLRefreshed(c) \/ ValueFails(c)
      PROVE  InStep'
  <2>1. ~vague
    BY <1>8 DEF ValueLoaded, TextSaved, ElementSaved, PartRemoved, TTLRefreshed, ValueFails, Ends,
                Answered
  <2> QED
    BY <1>8, <2>1, EndsInStep
<1> QED
  BY <1>1, <1>2, <1>3, <1>4, <1>5, <1>6, <1>7, <1>8 DEF ValuesNext, Asks

\* With nothing out, the rows on screen and the label are the server's.
LEMMA InStepShows == InStep => PanelShowsValue
<1> SUFFICES ASSUME InStep, panel, rows # None, Out = {}
             PROVE  PanelShowsValue
  BY DEF PanelShowsValue
<1>1. ~Gone /\ ValueOut = {} /\ TTLOut = {}
  BY DEF Gone, ValueOut, TTLOut
<1>2. InWindow(rows, start) /\ IF dropped THEN expiry = 0 ELSE label = expiry
  BY <1>1 DEF InStep, Tracks, TTLKnown
<1> QED
  BY <1>2 DEF InWindow, PanelShowsValue

-----------------------------------------------------------------------------
(***************************************************************************)
(* The life of the session, and the tab as a whole: one view is used, and  *)
(* the state of the two others stays what it was at first.                 *)
(***************************************************************************)
SessionInv ==
    /\ kind \in {"mongo", "redis", "value"} /\ mounted \in BOOLEAN /\ run \in Runs
    /\ opening \subseteq Runs /\ open \subseteq Runs
    /\ closing \subseteq open \ opening
    /\ \A n \in open : n \in opening \cup closing \cup {ref}
    /\ ref \in Runs \cup {None}
    /\ ref # None => mounted /\ ref = run /\ ref \in open \ (opening \cup closing)

TabInv ==
    /\ SessionInv
    /\ Shape
    /\ IF kind = "mongo" THEN MongoInv /\ WalkInv ELSE MongoInit
    /\ IF kind = "redis" THEN RedisInv /\ (~vague => Faithful) ELSE RedisInit
    /\ IF kind = "value" THEN ValuesInv /\ (~vague => InStep) ELSE ValuesInit

\* The state of a view that is not used.
LEMMA UnusedMongo ==
  ASSUME MongoInit
  PROVE  MongoTypeOK /\ MongoFlagsAccountedFor /\ PageShowsSelection
<1>1. {} \subseteq DocSet /\ store \in [Colls -> SUBSET Ids] /\ Everything \in Filters
  BY MongoAssumption DEF MongoInit, Ids, Everything
<1> QED
  BY <1>1 DEF MongoInit, MongoTypeOK, MongoFlagsAccountedFor, PageShowsSelection

LEMMA UnusedRedis ==
  ASSUME RedisInit
  PROVE  RedisTypeOK /\ RedisFlagsAccountedFor /\ DataSurvives /\ FinishedScanIsExact
<1>1. Keys \in Patterns
  BY RedisAssumption
<1>2. RedisTypeOK
  BY <1>1 DEF RedisInit, RedisTypeOK
<1>3. DataSurvives
  BY DEF RedisInit, DataSurvives
<1> QED
  BY <1>2, <1>3 DEF RedisInit, RedisFlagsAccountedFor, FinishedScanIsExact

LEMMA UnusedValue ==
  ASSUME ValuesInit
  PROVE  ValuesTypeOK /\ ValueFlagsAccountedFor /\ PartsSurvive /\ PanelShowsValue
<1>1. {WindowSize, MaxLen, MaxTTL} \subseteq Nat \ {0}
  BY ValuesAssumption
<1>2. stored \in ValuesOf(type) /\ kept = DOMAIN stored /\ type \in Types
  BY DEF ValuesInit
<1>3. kept \subseteq Parts \cup 1..MaxLen
  <2>1. CASE type = "string"
    BY <1>1, <1>2, <2>1, Strings
  <2>2. CASE type = "list"
    <3>1. stored \in Seq(Texts) /\ Len(stored) <= MaxLen
      BY <1>2, <2>2, Lists
    <3>2. DOMAIN stored = 1..Len(stored) /\ Len(stored) \in Nat
      BY <3>1, LenProperties
    <3> QED
      BY <1>1, <1>2, <3>1, <3>2
  <2>3. CASE type = "set"
    BY <1>2, <2>3, Sets
  <2>4. CASE type \in {"hash", "zset"}
    BY <1>2, <2>4, Maps
  <2> QED
    BY <1>2, <2>1, <2>2, <2>3, <2>4 DEF Types
<1>4. 0..1 \subseteq 0..MaxTTL
  BY <1>1
<1>5. ValuesTypeOK
  BY <1>2, <1>3, <1>4 DEF ValuesInit, ValuesTypeOK
<1> QED
  BY <1>2, <1>5 DEF ValuesInit, ValueFlagsAccountedFor, PartsSurvive, PanelShowsValue

LEMMA TabInit == Init => TabInv
<1> SUFFICES ASSUME Init
             PROVE  TabInv
  OBVIOUS
<1> USE DEF Init
<1>1. SessionInv
  BY DEF SessionInv, Runs
<1>2. Shape /\ Out = {} /\ (\A c \in Calls : pc[c] = "idle") /\ (\A o : Pending(o) = {})
  BY DEF RequestInit, Shape, Out, Pending
<1>3. MongoInv /\ WalkInv
  <2>1. MongoInv
    BY <1>2, UnusedMongo
       DEF MongoInv, MongoRequest, OneMongoRequest, ShowsCollection, WritesHitShownDocument, MongoInit
  <2>2. WalkInv
    BY <1>2 DEF WalkInv, WalkIsComplete, PageFollows, MongoInit
  <2> QED
    BY <2>1, <2>2
<1>4. RedisInv /\ Faithful
  <2>1. Panel /\ SavesHitTheirKey /\ \A c \in Calls : RedisRequest(c)
    BY <1>2, RedisNoneAssumption DEF RedisInit, Panel, RedisRequest, SavesHitTheirKey
  <2>2. Faithful
    BY <1>2, RedisNoneAssumption DEF RedisInit, Faithful, LoadOut
  <2> QED
    BY <1>2, <2>1, <2>2, UnusedRedis DEF RedisInv
<1>5. ValuesInv
  <2>1. Carried /\ Unopened /\ Room /\ Editor
    BY <1>2 DEF ValuesInit, Carried, Unopened, Room, Editor
  <2>2. kept \subseteq DOMAIN stored
    BY DEF ValuesInit
  <2> QED
    BY <1>2, <2>1, <2>2, UnusedValue DEF ValuesInv, ValueRequest
<1>6. InStep
  BY <1>2 DEF ValuesInit, InStep, OnePerKind, TTLKnown, Tracks, ValueOut
<1> QED
  BY <1>1, <1>2, <1>3, <1>4, <1>5, <1>6 DEF TabInv

-----------------------------------------------------------------------------
\* The session.
LEMMA SessionStep ==
  ASSUME SessionInv, [Next]_vars
  PROVE  SessionInv'
<1> USE DEF SessionInv
<1>1. None \notin Runs
  BY TabsAssumption
<1>2. ASSUME NEW n \in Runs, OpenServed(n)
      PROVE  SessionInv'
  BY <1>1, <1>2 DEF OpenServed, Elsewhere
<1>3. ASSUME NEW n \in Runs, OpenAnswered(n)
      PROVE  SessionInv'
  <2>1. /\ n \in opening \cap open /\ opening' = opening \ {n}
        /\ UNCHANGED <<mounted, run, open, kind>>
    BY <1>3 DEF OpenAnswered, Elsewhere, FirstScan
  <2>2. CASE mounted /\ n = run
    <3>1. ref' = n /\ closing' = closing
      BY <1>3, <2>2 DEF OpenAnswered
    <3> QED
      BY <1>1, <2>1, <2>2, <3>1
  <2>3. CASE ~(mounted /\ n = run)
    <3>1. ref' = ref /\ closing' = closing \cup {n}
      BY <1>3, <2>3 DEF OpenAnswered
    <3> QED
      BY <1>1, <2>1, <2>3, <3>1
  <2> QED
    BY <2>2, <2>3
<1>4. ASSUME NEW n \in Runs, OpenFails(n) \/ CloseServed(n)
      PROVE  SessionInv'
  BY <1>1, <1>4 DEF OpenFails, CloseServed, Elsewhere
<1>5. CASE CloseTab
  BY <1>1, <1>5 DEF CloseTab, Elsewhere
<1>6. CASE UseMongo \/ UseRedis \/ UseValue \/ Closed \/ UNCHANGED vars
  <2>1. UNCHANGED tabVars
    BY <1>6 DEF UseMongo, UseRedis, UseValue, Closed, vars
  <2> QED
    BY <2>1 DEF tabVars
<1> QED
  BY <1>2, <1>3, <1>4, <1>5, <1>6 DEF Next

\* The steps of the session that leave the view alone, or start its first scan.
LEMMA ViewAlone ==
  ASSUME TabInv, UNCHANGED <<requestVars, vague, storeVars, kind>>, SessionInv'
  PROVE  TabInv'
<1> USE DEF requestVars, storeVars, mongoVars, pageVars, editVars, redisVars, listVars, tickVars,
            panelVars, valueVars
<1>1. Shape'
  BY DEF TabInv, Shape
<1>2. (\A o : Pending(o)' = Pending(o)) /\ Out' = Out
  BY DEF Pending, Out
<1>3. IF kind' = "mongo" THEN MongoInv' /\ WalkInv' ELSE MongoInit'
  <2>1. MongoInit => MongoInit'
    BY DEF MongoInit
  <2>2. MongoInv => MongoInv'
    BY <1>1, <1>2 DEF MongoInv, MongoTypeOK, MongoFlagsAccountedFor, MongoRequest,
          WritesHitShownDocument, OneMongoRequest, Calm, ShowsCollection, BeingDeleted
  <2>3. WalkInv => WalkInv'
    BY WalkFrame
  <2> QED
    BY <2>1, <2>2, <2>3 DEF TabInv
<1>4. IF kind' = "redis" THEN RedisInv' /\ (~vague' => Faithful') ELSE RedisInit'
  <2>1. RedisInit => RedisInit'
    BY DEF RedisInit
  <2>2. RedisInv => RedisInv'
    BY <1>1, <1>2 DEF RedisInv, RedisTypeOK, RedisFlagsAccountedFor, RedisRequest, Panel,
          SavesHitTheirKey
  <2>3. Faithful => Faithful'
    BY <1>2 DEF Faithful, LoadOut, RequestFits, GoneBy, ComeBy, Covered, Existing, ScanKeys
  <2> QED
    BY <2>1, <2>2, <2>3 DEF TabInv
<1>5. IF kind' = "value" THEN ValuesInv' /\ (~vague' => InStep') ELSE ValuesInit'
  <2>1. ValuesInit => ValuesInit'
    BY DEF ValuesInit, ValuesOf
  <2>2. ASSUME ValuesInv
        PROVE  ValuesInv'
    <3>1. ValuesOf(type)' = ValuesOf(type) /\ Text' = Text
      BY DEF ValuesOf, Text
    <3>2. ValuesTypeOK'
      BY <2>2, <3>1 DEF ValuesInv, ValuesTypeOK
    <3>3. \A c \in Calls : ValueRequest(c)'
      BY <2>2, <3>1 DEF ValuesInv, ValueRequest, SentWith, AnsweredWith, Edited, Appended, Windowed
    <3>4. Carried'
      BY <2>2 DEF ValuesInv, Carried, Carries
    <3>5. Unopened' /\ Editor' /\ kept' \subseteq DOMAIN stored'
      BY <1>2, <2>2, <3>1 DEF ValuesInv, Unopened, Editor, Edited
    <3>6. Room'
      BY <1>2, <2>2 DEF ValuesInv, Room
    <3> QED
      BY <1>1, <3>2, <3>3, <3>4, <3>5, <3>6 DEF ValuesInv
  <2>3. InStep => InStep'
    <3>1. ValueOut' = ValueOut /\ TTLOut' = TTLOut
      BY <1>2 DEF ValueOut, TTLOut
    <3>2. OnePerKind' = OnePerKind /\ TTLKnown' = TTLKnown /\ Gone' = Gone
      BY <1>2, <3>1 DEF OnePerKind, TTLKnown, Gone
    <3>3. Tracks => Tracks'
      <4>1. \A d \in ValueOut : UNCHANGED <<op[d], pc[d], arg[d], ans[d]>>
        OBVIOUS
      <4> QED
        BY <3>1, <4>1, TracksKept
    <3> QED
      BY <1>2, <3>2, <3>3 DEF InStep, AskedFor
  <2> QED
    BY <2>1, <2>2, <2>3 DEF TabInv
<1> QED
  BY <1>1, <1>3, <1>4, <1>5 DEF TabInv

LEMMA TabStep == TabInv /\ [Next]_vars => TabInv'
<1> SUFFICES ASSUME TabInv, [Next]_vars
             PROVE  TabInv'
  OBVIOUS
<1>1. SessionInv'
  BY SessionStep DEF TabInv
<1>2. ASSUME UNCHANGED <<requestVars, vague, storeVars, kind>>
      PROVE  TabInv'
  BY <1>1, <1>2, ViewAlone
<1>3. MongoInit /\ UNCHANGED mongoVars => MongoInit'
  BY DEF MongoInit, mongoVars, pageVars, editVars
<1>4. RedisInit /\ UNCHANGED redisVars => RedisInit'
  BY DEF RedisInit, redisVars, listVars, tickVars, panelVars
<1>5. ValuesInit /\ UNCHANGED valueVars => ValuesInit'
  BY DEF ValuesInit, valueVars, ValuesOf
<1>6. ASSUME NEW n \in Runs, OpenServed(n) \/ OpenFails(n) \/ CloseServed(n)
      PROVE  TabInv'
  BY <1>2, <1>6 DEF OpenServed, OpenFails, CloseServed, Elsewhere
<1>7. ASSUME NEW n \in Runs, OpenAnswered(n)
      PROVE  TabInv'
  <2>1. CASE ~(mounted /\ n = run)
    BY <1>2, <1>7, <2>1 DEF OpenAnswered, Elsewhere
  <2>2. CASE mounted /\ n = run
    <3>1. FirstScan
      BY <1>7, <2>2 DEF OpenAnswered
    <3>2. CASE kind # "redis"
      BY <1>2, <3>1, <3>2 DEF FirstScan, storeVars
    <3>3. CASE kind = "redis"
      <4>1. PICK c \in Calls : SendScan(c, "replace")
        BY <3>1, <3>3 DEF FirstScan
      <4>2. RedisInv' /\ (~vague' => Faithful')
        BY <3>3, <4>1, RedisAsks, FaithfulAsks DEF TabInv
      <4>3. MongoInit' /\ ValuesInit' /\ kind' = "redis" /\ Shape'
        BY <1>3, <1>5, <3>1, <3>3, <4>2 DEF TabInv, FirstScan, RedisInv
      <4> QED
        BY <1>1, <4>2, <4>3 DEF TabInv
    <3> QED
      BY <3>2, <3>3
  <2> QED
    BY <2>1, <2>2
<1>8. CASE CloseTab \/ Closed \/ UNCHANGED vars
  BY <1>2, <1>8 DEF CloseTab, Closed, vars, Elsewhere, tabVars
<1>9. CASE UseMongo
  <2>1. kind = "mongo" /\ MongoNext /\ UNCHANGED <<redisVars, valueVars, kind>>
    BY <1>9 DEF UseMongo, tabVars
  <2>2. MongoInv' /\ WalkInv' /\ RedisInit' /\ ValuesInit'
    BY <1>4, <1>5, <2>1, MongoStep, WalkStep DEF TabInv
  <2> QED
    BY <1>1, <2>1, <2>2 DEF TabInv, MongoInv
<1>10. CASE UseRedis
  <2>1. kind = "redis" /\ RedisNext /\ UNCHANGED <<mongoVars, valueVars, kind>>
    BY <1>10 DEF UseRedis, tabVars
  <2>2. RedisInv' /\ (~vague' => Faithful') /\ MongoInit' /\ ValuesInit'
    BY <1>3, <1>5, <2>1, RedisStep, FaithfulStep DEF TabInv
  <2> QED
    BY <1>1, <2>1, <2>2 DEF TabInv, RedisInv
<1>11. CASE UseValue
  <2>1. kind = "value" /\ ValuesNext /\ UNCHANGED <<mongoVars, redisVars, kind>>
    BY <1>11 DEF UseValue, tabVars
  <2>2. ValuesInv' /\ (~vague' => InStep') /\ MongoInit' /\ RedisInit'
    BY <1>3, <1>4, <2>1, ValuesStep, StepInStep DEF TabInv
  <2> QED
    BY <1>1, <2>1, <2>2 DEF TabInv, ValuesInv
<1> QED
  BY <1>6, <1>7, <1>8, <1>9, <1>10, <1>11 DEF Next

-----------------------------------------------------------------------------
(***************************************************************************)
(* The theorems.                                                           *)
(***************************************************************************)
LEMMA TabAlways == Spec => []TabInv
  BY TabInit, TabStep, PTL DEF Spec

\* No requests of one view are pending in the tab of another.
LEMMA OtherViews ==
  ASSUME TabInv
  PROVE  /\ kind # "mongo" => Pending("update") = {} /\ Pending("deleteDocument") = {}
         /\ kind # "redis" => Pending("save") = {}
         /\ kind # "value" => Pending("setElement") = {}
<1>1. kind = "mongo" => \A c \in Out : op[c] \in {"find", "update", "deleteDocument", "insert"}
  BY DEF TabInv, MongoInv, MongoRequest, Out
<1>2. kind = "redis" => \A c \in Out : op[c] \in {"rename", "scan", "deleteTicked", "remove", "save"}
  BY DEF TabInv, RedisInv, RedisRequest, Out
<1>3. kind = "value" => \A c \in Out : op[c] \in {"getValue", "getTTL", "setValue", "setElement",
                                                "add", "removePart", "setTTL", "persist"}
  BY DEF TabInv, ValuesInv, ValueRequest, SentWith, Out
<1> QED
  BY <1>1, <1>2, <1>3 DEF TabInv, SessionInv, Pending

\* No session is left open on the Go side that the view has forgotten, and
\* none is closed under the view, whatever runs of the effect answer when.
THEOREM TabSessions == Spec => []SessionsAccountedFor
<1>1. TabInv => SessionsAccountedFor
  BY DEF TabInv, SessionInv, SessionsAccountedFor
<1> QED
  BY <1>1, TabAlways, PTL

\* A flag that disables a button has a request out that resets it, however
\* many requests cross or fail.
THEOREM TabNeverSpins == Spec => []NothingSpins
<1>1. TabInv => NothingSpins
  <2> SUFFICES ASSUME TabInv
               PROVE  NothingSpins
    OBVIOUS
  <2>1. MongoTypeOK /\ MongoFlagsAccountedFor
    BY UnusedMongo DEF TabInv, MongoInv
  <2>2. RedisTypeOK /\ RedisFlagsAccountedFor
    BY UnusedRedis DEF TabInv, RedisInv
  <2>3. ValuesTypeOK /\ ValueFlagsAccountedFor
    BY UnusedValue, ValuesInvImplies DEF TabInv, ValuesInv
  <2>4. TypeOK
    BY <2>1, <2>2, <2>3 DEF TypeOK, TabInv, SessionInv
  <2> QED
    BY <2>1, <2>2, <2>3, <2>4 DEF NothingSpins
<1> QED
  BY <1>1, TabAlways, PTL

\* A save or an LSET goes to what its text was loaded from, whatever was opened
\* or arrived between the click and the write; an update or a deletion does
\* that was clicked under a page that had come without an error, as long as no
\* two requests have been out at once.
THEOREM TabEdits == Spec => []EditsHitTheirSource
<1>1. TabInv => EditsHitTheirSource
  <2> SUFFICES ASSUME TabInv
               PROVE  EditsHitTheirSource
    OBVIOUS
  <2>1. WritesHitShownDocument
    BY OtherViews DEF TabInv, MongoInv, WritesHitShownDocument
  <2>2. SavesHitTheirKey
    BY OtherViews DEF TabInv, RedisInv, SavesHitTheirKey
  <2>3. ElementEditsHitTheirRow
    BY OtherViews, ValuesInvImplies DEF TabInv, ElementEditsHitTheirRow
  <2> QED
    BY <2>1, <2>2, <2>3 DEF EditsHitTheirSource
<1> QED
  BY <1>1, TabAlways, PTL

\* Nothing is lost but what the user confirmed to delete or remove: no
\* rename, save, HSET, SADD, ZADD, RPUSH or LSET takes other data with it.
THEOREM TabLosesNothing == Spec => []NothingLost
<1>1. TabInv => NothingLost
  <2> SUFFICES ASSUME TabInv
               PROVE  NothingLost
    OBVIOUS
  <2>1. DataSurvives
    BY UnusedRedis DEF TabInv, RedisInv, Faithful, DataSurvives
  <2>2. PartsSurvive
    BY UnusedValue, ValuesInvImplies DEF TabInv
  <2> QED
    BY <2>1, <2>2 DEF NothingLost
<1> QED
  BY <1>1, TabAlways, PTL

\* Turning the pages to the last one shows every match, however long they are.
THEOREM TabWalksEverything == Spec => []WalkSeesEveryMatch
<1>1. TabInv => WalkSeesEveryMatch
  <2>1. MongoInit => WalkSeesEveryMatch
    BY DEF MongoInit, WalkSeesEveryMatch
  <2> QED
    BY <2>1, WalkSees DEF TabInv
<1> QED
  BY <1>1, TabAlways, PTL

\* With nothing under way, a page of documents shows the selected collection,
\* a finished scan lists exactly the keys of its pattern that exist, and the
\* panel shows the value the server has, and the TTL unless a write has dropped
\* it since.
THEOREM TabShowsTheStore == Spec => []ScreenShowsStore
<1>1. TabInv => ScreenShowsStore
  <2> SUFFICES ASSUME TabInv
               PROVE  ScreenShowsStore
    OBVIOUS
  <2>1. PageShowsSelection
    <3>1. CASE kind # "mongo"
      BY <3>1, UnusedMongo DEF TabInv
    <3>2. CASE kind = "mongo"
      <4>1. MongoInv
        BY <3>2 DEF TabInv
      <4> QED
        BY <4>1 DEF MongoInv, MongoFlagsAccountedFor, Calm, ShowsCollection, BeingDeleted,
                    PageShowsSelection, Pending
    <3> QED
      BY <3>1, <3>2
  <2>2. FinishedScanIsExact
    <3>1. CASE kind # "redis"
      BY <3>1, UnusedRedis DEF TabInv
    <3>2. CASE kind = "redis" /\ ~vague
      <4>1. Faithful
        BY <3>2 DEF TabInv
      <4>2. Existing \subseteq Keys
        BY DEF Existing
      <4> QED
        BY <4>1, <4>2 DEF Faithful, FinishedScanIsExact, Covered
    <3> QED
      BY <3>1, <3>2 DEF FinishedScanIsExact
  <2>3. PanelShowsValue
    <3>1. CASE kind # "value"
      BY <3>1, UnusedValue DEF TabInv
    <3>2. CASE kind = "value" /\ ~vague
      BY <3>2, InStepShows DEF TabInv
    <3> QED
      BY <3>1, <3>2 DEF PanelShowsValue
  <2> QED
    BY <2>1, <2>2, <2>3 DEF ScreenShowsStore
<1> QED
  BY <1>1, TabAlways, PTL
=============================================================================
