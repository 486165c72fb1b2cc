--------------------------------- MODULE Links ---------------------------------
(* How a reference finds its page (internal/vault/links.go, aliases.go,       *)
(* scopeindex.go).  Slugs, aliases and references are names; Normal folds a    *)
(* name to the form the last rung of the ladder compares.                      *)
EXTENDS Naturals, FiniteSets, Functions

CONSTANTS
  Names,      \* slugs, aliases and references
  Normal,     \* vault.Normalise: the slug a name folds to
  Scopes,     \* top-level directories, the tenants
  Uids,
  None

ASSUME NormalFolds == Normal \in [Names -> Names]

ASSUME UidsAreFinite == IsFiniteSet(Uids)

ASSUME NoneIsApart ==
  /\ None \notin Uids
  /\ None \notin {"slug", "alias", "normalised", "dangling"}

\* A slug keeps the uid registered last; an alias keeps all of them, so that
\* two pages of one alias make it ambiguous.
EmptyIndex ==
  [slugs   |-> [at \in Scopes \X Names |-> None],
   aliases |-> {},
   known   |-> {}]

\* One page of the first pass: its slug and its aliases, in the two registries
\* and in the scope index (vault.ScopeIndex.Record).
Register(index, scope, slug, aliases, uid) ==
  LET names == {slug} \cup aliases IN
  [slugs   |-> [index.slugs EXCEPT ![<<scope, slug>>] = uid],
   aliases |-> index.aliases \cup {[scope |-> scope, name |-> n, uid |-> uid] : n \in names},
   known   |-> index.known \cup {<<Normal[n], scope>> : n \in names}]

Single(uids) == IF Cardinality(uids) = 1 THEN CHOOSE uid \in uids : TRUE ELSE None

LookupExact(index, ref, scope) ==
  Single({a.uid : a \in {b \in index.aliases : b.scope = scope /\ b.name = ref}})

LookupNormalised(index, ref, scope) ==
  Single({a.uid : a \in
            {b \in index.aliases : b.scope = scope /\ Normal[b.name] = Normal[ref]}})

\* vault.Resolve: the four rungs in order, the first hit ends it.
Resolve(ref, scope, index) ==
  LET rungs ==
        <<[uid |-> index.slugs[<<scope, ref>>],            rung |-> "slug"],
          [uid |-> LookupExact(index, ref, scope),         rung |-> "alias"],
          [uid |-> index.slugs[<<scope, Normal[ref]>>],    rung |-> "normalised"],
          [uid |-> LookupNormalised(index, ref, scope),    rung |-> "normalised"]>>
      hits  == {k \in DOMAIN rungs : rungs[k].uid # None}
  IN IF hits = {}
     THEN [uid |-> None, rung |-> "dangling"]
     ELSE rungs[CHOOSE k \in hits : \A j \in hits : k <= j]

\* vault.ScopeIndex.CrossScope
CrossScope(known, ref, ownScope) ==
  \E s \in Scopes \ {ownScope} : <<Normal[ref], s>> \in known

===============================================================================
