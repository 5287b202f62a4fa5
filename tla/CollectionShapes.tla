-------------------------- MODULE CollectionShapes --------------------------
(***************************************************************************)
(* The structure diagram of a MongoDB collection (internal/diagram/mongo.go *)
(* behind BuildMongoStructureDiagram): a sample of its documents is drawn  *)
(* and the shape they have is inferred.  Each collection of the database   *)
(* is sampled by itself; one is followed here.                             *)
(***************************************************************************)
EXTENDS Naturals, FiniteSets, Sequences
LOCAL INSTANCE SequencesExt

CONSTANTS Documents, \* what the collection's documents may look like
          SampleSize

VARIABLES
    collection, \* the documents that are stored
    structure   \* none, or the shape on the way to the screen; history: of what

shapeVars == <<collection, structure>>

\* A value: its kind, and the fields of an object or the elements of an array.
\* A document is a function from names to values.
Value(kind, fields, elements) == [kind |-> kind, fields |-> fields, elements |-> elements]
Scalar(kind) == Value(kind, <<>>, <<>>)

Kinds(values) == {values[i].kind : i \in DOMAIN values}
Objects(values) ==
    LET objects == SelectSeq(values, LAMBDA v : v.kind = "object")
    IN  [i \in DOMAIN objects |-> objects[i].fields]
Elements(values) == FlattenSeq([i \in DOMAIN values |-> values[i].elements])

RECURSIVE InferCollectionShape(_)

\* Mutant of InferFieldShape: an optional field is one that may be null.
InferFieldShapeNull(values, total) ==
    LET objects == IF Objects(values) # <<>> THEN Objects(values)
                   ELSE Objects(Elements(values))
    IN  [kinds |-> Kinds(values),
         optional |-> "null" \in Kinds(values),
         elementKinds |-> Kinds(Elements(values)),
         nested |-> IF objects = <<>> THEN {} ELSE {InferCollectionShape(objects)}]

\* inferFieldShape: the shape of objects comes before that of the objects in
\* arrays.
InferFieldShape(values, total) ==
    LET objects == IF Objects(values) # <<>> THEN Objects(values)
                   ELSE Objects(Elements(values))
    IN  [kinds |-> Kinds(values),
         optional |-> Len(values) < total,
         elementKinds |-> Kinds(Elements(values)),
         nested |-> IF objects = <<>> THEN {} ELSE {InferCollectionShape(objects)}]

InferCollectionShape(docs) ==
    LET Having(n) == SelectSeq(docs, LAMBDA d : n \in DOMAIN d)
        ValuesOf(n) == [i \in DOMAIN Having(n) |-> Having(n)[i][n]]
    IN  [n \in UNION {DOMAIN docs[i] : i \in DOMAIN docs} |->
            InferFieldShape(ValuesOf(n), Len(docs))]

-----------------------------------------------------------------------------
ShapesInit ==
    /\ collection = {}
    /\ structure = {}

InsertDocument(d) ==
    /\ collection' = collection \cup {d}
    /\ UNCHANGED structure

\* SampleDocuments, at random, and the inference.
BuildStructure ==
    /\ \E sample \in SUBSET collection :
          /\ Cardinality(sample) <= SampleSize
          /\ structure' = {[sample |-> sample,
                            shape |-> InferCollectionShape(SetToSeq(sample))]}
    /\ UNCHANGED collection

ShapesNext == BuildStructure \/ \E d \in Documents : InsertDocument(d)

ShapesSpec == ShapesInit /\ [][ShapesNext]_shapeVars

-----------------------------------------------------------------------------
\* What a shape says of a document.
RECURSIVE Fits(_, _)
FitsField(v, field) ==
    /\ v.kind \in field.kinds
    /\ v.kind = "object" => \E shape \in field.nested : Fits(v.fields, shape)
    /\ \A i \in DOMAIN v.elements :
          LET e == v.elements[i]
          IN  /\ e.kind \in field.elementKinds
              /\ e.kind = "object" /\ "object" \notin field.kinds =>
                    \E shape \in field.nested : Fits(e.fields, shape)
Fits(d, shape) ==
    /\ DOMAIN d \subseteq DOMAIN shape
    /\ \A n \in DOMAIN shape :
          IF n \in DOMAIN d THEN FitsField(d[n], shape[n]) ELSE shape[n].optional

\* A diagram of a collection is true of the documents it was inferred from, at
\* every depth: each fits it, a field is optional only if one lacks it, and a
\* kind is named only if one has it.  An object in an array is described only
\* if the field is not also an object itself (FieldShape's own exception).
ShapesFitTheSample ==
    \A s \in structure :
        /\ \A d \in s.sample : Fits(d, s.shape)
        /\ \A n \in DOMAIN s.shape :
              /\ s.shape[n].optional <=> \E d \in s.sample : n \notin DOMAIN d
              /\ \A k \in s.shape[n].kinds :
                    \E d \in s.sample : n \in DOMAIN d /\ d[n].kind = k
=============================================================================
