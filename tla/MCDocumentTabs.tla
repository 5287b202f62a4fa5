--------------------------- MODULE MCDocumentTabs ---------------------------
(***************************************************************************)
(* TLC instance of DocumentTabs: a Redis key on either page of a scan,     *)
(* two collections that share ids, and values of up to two parts.          *)
(***************************************************************************)
EXTENDS DocumentTabs, TLC

CONSTANT k1

MCPatterns == {Keys, {k1}}
MCFilters == {Ids, {1, 2}}

\* Once two requests have crossed, or an answer is lost, what is under way
\* runs to its end, while the user asks for nothing new; on the key of a Redis
\* tab he clicks on.
Drain ==
    vague => /\ Out # {} /\ Cardinality(Out') <= Cardinality(Out)
             /\ kind = "redis" \/ requestVars' # requestVars

\* The state left unused by the tab's kind is not varied, and one of the
\* collections has no other document than 1.
Unused ==
    /\ \E x \in Colls : store[x] \subseteq {1}
    /\ kind # "redis" => db = [k \in Keys |-> None]
    /\ kind # "mongo" => store = [x \in Colls |-> {}]
    /\ kind # "value" => type = "list" /\ stored = <<1>> /\ expiry = 0

\* The view and the life of its session share only `ref`: the view is used in
\* the tabs whose sessions have settled, and closed before it has been used.
ViewSteps == <<requestVars, vague, storeVars>>' # <<requestVars, vague, storeVars>>
Fresh == coll = None /\ ~scanned /\ ~panel
Apart ==
    /\ ViewSteps /\ ref # None => run = 1 /\ opening = {} /\ closing = {}
    /\ mounted' \/ Fresh

\* The pattern field is edited while no key is open or ticked, and keys are
\* opened and ticked while it has the pattern of the list.
SettledPattern ==
    /\ pattern' # pattern => openKey = None /\ ticked = {}
    /\ <<openKey, ticked>>' # <<openKey, ticked>> => requestVars' # requestVars \/ pattern = found

Symmetry == {f @@ g : f \in Permutations(Calls), g \in Permutations(Colls)}
=============================================================================
