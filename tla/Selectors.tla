----------------------------- MODULE Selectors ------------------------------
(***************************************************************************)
(* How the subnets, security groups and SSH keys that a class selects are  *)
(* asked for: vpc.DefaultProvider.ListSubnets and ListSecurityGroups, and  *)
(* sshkey.DefaultProvider.List.  Which part of an answer the controllers   *)
(* store, and what a failed request does, is in NodeClassLifecycle.        *)
(***************************************************************************)
EXTENDS Naturals, FiniteSets, SequencesExt

CONSTANTS
  Resources,   \* subnets, groups or keys in the cloud: numbers
  Conditions,  \* what a term may ask of tags: a key, or a key and its value
  NoID,        \* the ID of a term that selects by tags
  InVPC,       \* condition to lie in the cluster's network
  PageSize     \* resources in an answer, at most: no further page is asked for

ASSUME SelectorAssumption ==
  Resources \subseteq Nat /\ IsFiniteSet(Resources) /\ PageSize \in Nat /\ NoID \notin Resources

\* A term with an ID selects by the ID alone.
Terms == [id : Resources, tags : {{}}] \cup [id : {NoID}, tags : (SUBSET Conditions) \ {{}}]

BatchSize == 5

\* The end of a batch is taken for its last index.
FaultyBatches(n) ==
  {{k \in 1..n : i < k /\ k < i + BatchSize} : i \in {j \in 0..n - 1 : j % BatchSize = 0}}

\* The loop over the IDs: indices that are asked for together.
Batches(n) ==
  {{k \in 1..n : i < k /\ k <= i + BatchSize} : i \in {j \in 0..n - 1 : j % BatchSize = 0}}

\* The terms with an ID, by their positions, and the index of an ID among all.
IDTerms(terms) == {i \in DOMAIN terms : terms[i].id # NoID}
IDIndex(terms, i) == Cardinality({j \in IDTerms(terms) : j <= i})
IDsAt(terms, indices) == {terms[i].id : i \in {j \in IDTerms(terms) : IDIndex(terms, j) \in indices}}

\* A query asks for one of its IDs, if it has any, and for all its conditions.
TagQueries(terms) ==
  {[ids |-> {}, tags |-> t.tags] : t \in {u \in ToSet(terms) : u.id = NoID}}

IDQuery(ids) == [ids |-> ids, tags |-> {}]

\* getSubnetFilterSets: DescribeSubnets takes five IDs.
SubnetQueries(terms) ==
  TagQueries(terms)
    \cup {IDQuery(IDsAt(terms, b)) : b \in Batches(Cardinality(IDTerms(terms)))}

\* getSGFilterSets and sshkey.getFilterSets: all IDs in one query.
OneIDQuery(terms) ==
  TagQueries(terms)
    \cup {IDQuery({terms[i].id : i \in P}) : P \in {IDTerms(terms)} \ {{}}}

Queries(kind, terms) ==
  IF kind = "subnet"
  THEN {[q EXCEPT !.tags = @ \cup {InVPC}] : q \in SubnetQueries(terms)}
  ELSE OneIDQuery(terms)

\* tags: the conditions that each resource meets.
Matches(q, tags) == {r \in Resources : (q.ids = {} \/ r \in q.ids) /\ q.tags \subseteq tags[r]}

\* The cloud answers with the first page.
Answer(q, tags) ==
  {r \in Matches(q, tags) : Cardinality({s \in Matches(q, tags) : s < r}) < PageSize}

List(kind, terms, tags) == UNION {Answer(q, tags) : q \in Queries(kind, terms)}

-----------------------------------------------------------------------------
(* Properties.                                                             *)

Selected(kind, t, r, tags) ==
  /\ IF t.id = NoID THEN t.tags \subseteq tags[r] ELSE t.id = r
  /\ kind = "subnet" => InVPC \in tags[r]

\* What a term selects is found, and nothing else, unless some query matches
\* more than a page; a query for subnets never holds more IDs than it may,
\* wherever the batches end (getSubnetFilterSets, ListSubnets).
FindsWhatIsSelected(kind, terms, tags) ==
  LET queries == Queries(kind, terms) IN
  /\ kind = "subnet" => \A q \in queries : Cardinality(q.ids) <= BatchSize
  /\ (\A q \in queries : Cardinality(Matches(q, tags)) <= PageSize) =>
       List(kind, terms, tags)
         = {r \in Resources : \E t \in ToSet(terms) : Selected(kind, t, r, tags)}
=============================================================================
