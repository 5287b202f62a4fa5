--------------------------- MODULE MongoDocuments ---------------------------
(***************************************************************************)
(* The document browser of a Mongo tab (MongoDocumentView.tsx): a chosen   *)
(* collection, a filter, one page of documents, and the edits, insertions  *)
(* and deletions made from it.  No request of it is dropped when the user  *)
(* moves on.  A document is its _id, an ObjectID, which grows with time;   *)
(* a copied collection has the ids of the original.  A filter is the set   *)
(* of ids it matches, and an edit does not change that.                    *)
(***************************************************************************)
EXTENDS ViewRequests

CONSTANTS Colls,    \* the collections of the database
          OldIds,   \* ids that documents may have from the start
          MaxId,    \* bound: ids inserted documents may have
          Filters,  \* the sets of ids that filters match
          PageSize

ASSUME MongoAssumption ==
    /\ OldIds \subseteq 1..MaxId
    /\ MaxId \in Nat
    /\ Filters \subseteq SUBSET (1..MaxId)
    /\ 1..MaxId \in Filters
    /\ PageSize \in Nat \ {0}
    /\ None \notin Colls

VARIABLES
    store,      \* store[x]: the ids in collection x
    coll,       \* selectedCollection
    filter,     \* appliedFilter
    docs,       \* documents: ids on screen, with the collection they are from
    page,       \* skip / MONGO_PAGE_SIZE
    full,       \* lastFetchCount is a full page
    loading,    \* loadingDocuments
    error,      \* documentsError is shown
    editing,    \* editingDocId, and the collection its text is from
    creating, editSaving, createSaving,
    deletingId,
    walk        \* history: ids shown since the first page, None if the
                \* pages do not belong together

Ids == 1..MaxId
Everything == Ids
DocSet == [id : Ids, from : Colls]

pageVars == <<docs, page, full, walk>>
editVars == <<editing, creating, editSaving, createSaving, deletingId>>
mongoVars == <<store, coll, filter, pageVars, loading, error, editVars>>

MongoTypeOK ==
    /\ store \in [Colls -> SUBSET Ids]
    /\ coll \in Colls \cup {None}
    /\ filter \in Filters
    /\ docs \subseteq DocSet
    /\ page \in Nat
    /\ {full, loading, error, creating, editSaving, createSaving} \subseteq BOOLEAN
    /\ editing \in DocSet \cup {None}
    /\ deletingId \in Ids \cup {None}
    /\ walk \in (SUBSET Ids) \cup {None}

MongoInit ==
    /\ store \in [Colls -> SUBSET OldIds]
    /\ coll = None /\ filter = Everything
    /\ docs = {} /\ page = 0 /\ full = FALSE /\ walk = None
    /\ loading = FALSE /\ error = FALSE
    /\ editing = None /\ creating = FALSE /\ editSaving = FALSE /\ createSaving = FALSE
    /\ deletingId = None

-----------------------------------------------------------------------------
\* FindDocuments: the matches in the order of their _id, one page of them.
Rank(S, i) == Cardinality({j \in S : j <= i})

ServerPage(x, f, p) ==
    {i \in store[x] \cap f : Rank(store[x] \cap f, i) \in (p * PageSize + 1)..((p + 1) * PageSize)}

\* loadDocuments, up to its await.
SendFind(c, x, f, p) ==
    /\ Send(c, "find", [coll |-> x, filter |-> f, page |-> p], FALSE)
    /\ loading' = TRUE
    /\ error' = FALSE

SelectCollection(c, x) ==
    /\ x # coll
    /\ coll' = x
    /\ filter' = Everything
    /\ walk' = None
    /\ SendFind(c, x, Everything, 0)
    /\ UNCHANGED <<store, docs, page, full, editVars>>

\* Another database: no collection is selected, the page is emptied.
SelectDatabase ==
    /\ coll # None
    /\ coll' = None
    /\ filter' = Everything
    /\ docs' = {}
    /\ vague' = (vague \/ Out # {})
    /\ UNCHANGED <<requestVars, store, page, full, walk, loading, error, editVars>>

\* "Filter" and "Clear" are not disabled while documents load.
ApplyFilter(c, f) ==
    /\ coll # None
    /\ filter' = f
    /\ walk' = None
    /\ SendFind(c, coll, f, 0)
    /\ UNCHANGED <<store, coll, docs, page, full, editVars>>

TurnPage(c, p) ==
    /\ coll # None
    /\ docs # {}
    /\ ~loading
    /\ \/ p = page + 1 /\ full
       \/ p = page - 1
    /\ SendFind(c, coll, filter, p)
    /\ UNCHANGED <<store, coll, filter, pageVars, editVars>>

\* Mutant of ServeFind: no sort, so every page is taken from an order anew.
ServeFindUnsorted(c) ==
    /\ op[c] = "find"
    /\ LET match == store[arg[c].coll] \cap arg[c].filter
       IN  \E S \in SUBSET match :
              /\ Cardinality(S) = Cardinality(ServerPage(arg[c].coll, arg[c].filter, arg[c].page))
              /\ Serve(c, "find", "sent", S)
    /\ UNCHANGED mongoVars

ServeFind(c) ==
    /\ op[c] = "find"
    /\ Serve(c, "find", "sent", ServerPage(arg[c].coll, arg[c].filter, arg[c].page))
    /\ UNCHANGED mongoVars

\* Mutant of FindAnswered: an edit under way stays open.
FindAnsweredEditing(c) ==
    /\ Answered(c, "find")
    /\ docs' = [id : ans[c], from : {arg[c].coll}]
    /\ page' = arg[c].page
    /\ full' = (Cardinality(ans[c]) = PageSize)
    /\ walk' = IF arg[c].page = 0 THEN ans[c]
               ELSE IF walk = None THEN None ELSE walk \cup ans[c]
    /\ loading' = FALSE
    /\ creating' = FALSE
    /\ UNCHANGED <<store, coll, filter, error, editing, editSaving, createSaving, deletingId>>

\* The page is shown, whatever is selected by now; edits under way are closed.
FindAnswered(c) ==
    /\ Answered(c, "find")
    /\ docs' = [id : ans[c], from : {arg[c].coll}]
    /\ page' = arg[c].page
    /\ full' = (Cardinality(ans[c]) = PageSize)
    /\ walk' = IF arg[c].page = 0 THEN ans[c]
               ELSE IF walk = None THEN None ELSE walk \cup ans[c]
    /\ loading' = FALSE
    /\ editing' = None
    /\ creating' = FALSE
    /\ UNCHANGED <<store, coll, filter, error, editSaving, createSaving, deletingId>>

\* The documents of the page before stay on screen under the error.
FindFails(c) ==
    /\ Failed(c, "find")
    /\ loading' = FALSE
    /\ error' = TRUE
    /\ UNCHANGED <<store, coll, filter, pageVars, editVars>>

-----------------------------------------------------------------------------
(***************************************************************************)
(* Editing.  A request carries the collection selected when it is sent;    *)
(* `from` and `calm` are history: where the document on screen came from,  *)
(* and whether the page had been loaded, without an error, at the time.    *)
(***************************************************************************)
Calm == ~loading /\ ~error

StartEdit(d) ==
    /\ coll # None
    /\ d \in docs
    /\ editing # d
    /\ editing' = d
    /\ creating' = FALSE
    /\ UNCHANGED <<requestVars, vague, store, coll, filter, pageVars, loading, error, editSaving,
                   createSaving, deletingId>>

SaveEdit(c) ==
    /\ editing # None
    /\ coll # None
    /\ \E d \in docs : d.id = editing.id
    /\ ~editSaving
    /\ Send(c, "update", [coll |-> coll, id |-> editing.id, from |-> editing.from, calm |-> Calm],
            FALSE)
    /\ editSaving' = TRUE
    /\ UNCHANGED <<store, coll, filter, pageVars, loading, error, editing, creating, createSaving,
                   deletingId>>

\* ReplaceOne; an error if no document has the id.
ServeUpdate(c) ==
    /\ op[c] = "update"
    /\ arg[c].id \in store[arg[c].coll]
    /\ Serve(c, "update", "sent", None)
    /\ UNCHANGED mongoVars

UpdateAnswered(c) ==
    /\ Answered(c, "update")
    /\ docs' = {IF d.id = arg[c].id THEN [d EXCEPT !.from = arg[c].coll] ELSE d : d \in docs}
    /\ editing' = None
    /\ editSaving' = FALSE
    /\ UNCHANGED <<store, coll, filter, page, full, walk, loading, error, creating, createSaving,
                   deletingId>>

StartCreate ==
    /\ coll # None
    /\ ~creating
    /\ creating' = TRUE
    /\ editing' = None
    /\ UNCHANGED <<requestVars, vague, store, coll, filter, pageVars, loading, error, editSaving,
                   createSaving, deletingId>>

\* "Cancel" of either editor, disabled while it saves.
CancelEditor ==
    /\ \/ editing # None /\ ~editSaving /\ editing' = None /\ UNCHANGED creating
       \/ creating /\ ~createSaving /\ creating' = FALSE /\ UNCHANGED editing
    /\ UNCHANGED <<requestVars, vague, store, coll, filter, pageVars, loading, error, editSaving,
                   createSaving, deletingId>>

SaveCreate(c) ==
    /\ creating
    /\ coll # None
    /\ ~createSaving
    /\ Send(c, "insert", [coll |-> coll], FALSE)
    /\ createSaving' = TRUE
    /\ UNCHANGED <<store, coll, filter, pageVars, loading, error, editing, creating, editSaving,
                   deletingId>>

\* InsertOne: an _id greater than any before.
ServeInsert(c, i) ==
    /\ op[c] = "insert"
    /\ i \in Ids
    /\ \A j \in OldIds \cup UNION {store[x] : x \in Colls} : j < i
    /\ \A j \in Ids : j < i => j \in OldIds \/ \E x \in Colls : j \in store[x]
    /\ Serve(c, "insert", "sent", {i})
    /\ store' = [store EXCEPT ![arg[c].coll] = @ \cup {i}]
    /\ walk' = None
    /\ UNCHANGED <<coll, filter, docs, page, full, loading, error, editVars>>

\* The new document is shown first, on whichever page is on screen.
InsertAnswered(c) ==
    /\ Answered(c, "insert")
    /\ docs' = docs \cup [id : ans[c], from : {arg[c].coll}]
    /\ creating' = FALSE
    /\ createSaving' = FALSE
    /\ UNCHANGED <<store, coll, filter, page, full, walk, loading, error, editing, editSaving,
                   deletingId>>

Delete(c, d) ==
    /\ coll # None
    /\ d \in docs
    /\ deletingId # d.id
    /\ Send(c, "deleteDocument", [coll |-> coll, id |-> d.id, from |-> d.from, calm |-> Calm],
            FALSE)
    /\ deletingId' = d.id
    /\ UNCHANGED <<store, coll, filter, pageVars, loading, error, editing, creating, editSaving,
                   createSaving>>

\* DeleteMany: no error if nothing has the id.
ServeDeleteDocument(c) ==
    /\ op[c] = "deleteDocument"
    /\ Serve(c, "deleteDocument", "sent", None)
    /\ store' = [store EXCEPT ![arg[c].coll] = @ \ {arg[c].id}]
    /\ walk' = None
    /\ UNCHANGED <<coll, filter, docs, page, full, loading, error, editVars>>

\* Mutant of DeleteAnswered: the document stays on screen.
DeleteAnsweredOnly(c) ==
    /\ Answered(c, "deleteDocument")
    /\ deletingId' = None
    /\ UNCHANGED <<store, coll, filter, pageVars, loading, error, editing, creating, editSaving,
                   createSaving>>

DeleteAnswered(c) ==
    /\ Answered(c, "deleteDocument")
    /\ docs' = {d \in docs : d.id # arg[c].id}
    /\ deletingId' = None
    /\ UNCHANGED <<store, coll, filter, page, full, walk, loading, error, editing, creating,
                   editSaving, createSaving>>

\* The catch and finally blocks of the three writes.
WriteFails(c) ==
    /\ \E o \in {"update", "insert", "deleteDocument"} : Failed(c, o)
    /\ editSaving' = (editSaving /\ op[c] # "update")
    /\ createSaving' = (createSaving /\ op[c] # "insert")
    /\ deletingId' = IF op[c] = "deleteDocument" THEN None ELSE deletingId
    /\ UNCHANGED <<store, coll, filter, pageVars, loading, error, editing, creating>>

MongoNext ==
    \/ SelectDatabase \/ StartCreate \/ CancelEditor
    \/ \E d \in docs : StartEdit(d)
    \/ \E c \in Calls :
          \/ \E x \in Colls : SelectCollection(c, x)
          \/ \E f \in Filters : ApplyFilter(c, f)
          \/ \E p \in 0..(page + 1) : TurnPage(c, p)
          \/ ServeFind(c) \/ FindAnswered(c) \/ FindFails(c)
          \/ SaveEdit(c) \/ ServeUpdate(c) \/ UpdateAnswered(c)
          \/ SaveCreate(c) \/ (\E i \in Ids : ServeInsert(c, i)) \/ InsertAnswered(c)
          \/ (\E d \in docs : Delete(c, d)) \/ ServeDeleteDocument(c) \/ DeleteAnswered(c)
          \/ WriteFails(c)

-----------------------------------------------------------------------------
(***************************************************************************)
(* Properties.                                                             *)
(***************************************************************************)

\* When everything asked for has come, every document on screen exists in the
\* selected collection - unless requests crossed, or the last page could not
\* be loaded: then documents of the collection before stay under the new name.
PageShowsSelection ==
    Out = {} /\ ~vague /\ ~error =>
        \A d \in docs : d.from = coll /\ d.id \in store[coll]

\* An update or deletion is sent to the collection that its document came
\* from, if the page had been loaded without an error when it was clicked and
\* requests had not crossed: the editor is closed when other documents come,
\* so that its text cannot be saved over a document with the same _id. While
\* another collection loads, or once it could not be loaded, the documents and
\* the editor of the one before are still there: EditsAreInPlace.
WritesHitShownDocument ==
    \A c \in Pending("update") \cup Pending("deleteDocument") :
        arg[c].calm /\ ~vague => arg[c].from = arg[c].coll

\* The "in-place document editing" of UpdateMongoDocument's comment: an edit
\* that is carried out replaces the document whose text was edited, and not
\* the document of another collection.
EditsAreInPlace ==
    \A c \in Pending("update") : pc[c] = "served" => arg[c].from = arg[c].coll

\* Who turns the pages up to the last one has seen every match, whatever the
\* sizes: the sort by _id makes the pages fit together.  Nothing is inserted
\* or deleted meanwhile; a deletion makes the next page skip a document.
WalkSeesEveryMatch ==
    walk # None /\ Out = {} /\ ~vague /\ ~error /\ ~full /\ coll # None =>
        store[coll] \cap filter \subseteq walk

MongoFlagsAccountedFor ==
    /\ loading => Pending("find") # {}
    /\ editSaving => Pending("update") # {}
    /\ createSaving => Pending("insert") # {}
    /\ deletingId # None => Pending("deleteDocument") # {}
=============================================================================
