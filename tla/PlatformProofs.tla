---------------------------- MODULE PlatformProofs ----------------------------
(***************************************************************************)
(* Proofs about the platform around the pipelines: the catalog of          *)
(* artifacts and the launcher (ServiceCatalog) for any number of uploads   *)
(* and services, the command consumers (CommandConsumers) for any number   *)
(* of commands and failures, and the ablation batches (BatchRunner) for    *)
(* any configurations, clients, repetitions and restarts.                  *)
(***************************************************************************)
EXTENDS ServiceCatalog, CommandConsumers, BatchRunner, Registration, FiniteSetTheorems, TLAPS

-----------------------------------------------------------------------------
(***************************************************************************)
(* ServiceCatalog: the uploads.                                            *)
(***************************************************************************)
Leaf    == [digest : Digest, sigs : SUBSET Sig]
Tree    == [Item -> SUBSET Leaf]
Receipt == [item : Item, digest : Digest, sigs : SUBSET Sig]
Upload  == [pc : {"get", "insert", "put"}, item : Item, digest : Digest, sigs : SUBSET Sig,
            tries : Nat, seen : Nat, snap : Tree]

CatalogTypeOK ==
  /\ catalog \in Tree /\ cas \in Nat
  /\ up \in [Uploader -> Upload \cup {Free}]
  /\ kept \in SUBSET Receipt

\* An item has at most one entry.
OneLeaf(tree) == \A i \in Item : tree[i] # {} => \E e \in Leaf : tree[i] = {e}

\* The entries of one tree are in another, with at least their signatures.
Within(a, b) ==
  \A i \in Item : \A e \in a[i] : \E f \in b[i] : f.digest = e.digest /\ e.sigs \subseteq f.sigs

\* A CAS value that still matches belongs to the catalog as it is, and a copy
\* that is out of date was never ahead of it.
CopyOK(r) ==
  /\ OneLeaf(r.snap) /\ Within(r.snap, catalog)
  /\ r.seen <= cas /\ (r.seen = cas => r.snap = catalog)

CatalogInv ==
  /\ CatalogTypeOK
  /\ OneLeaf(catalog)
  /\ \A u \in Uploader : up[u].pc = "put" => CopyOK(up[u])
  /\ CatalogKeepsEntries

\* An entry is within itself, and what is within a tree is within a larger one.
LEMMA WithinOrder ==
  /\ \A a \in Tree : Within(a, a)
  /\ \A a, b, c \in Tree : Within(a, b) /\ Within(b, c) => Within(a, c)
<1>1. \A a \in Tree : Within(a, a)
  BY DEF Within
<1>2. ASSUME NEW a \in Tree, NEW b \in Tree, NEW c \in Tree, Within(a, b), Within(b, c)
      PROVE  Within(a, c)
  <2>. SUFFICES ASSUME NEW i \in Item, NEW e \in a[i]
                PROVE  \E f \in c[i] : f.digest = e.digest /\ e.sigs \subseteq f.sigs
    BY DEF Within
  <2>1. PICK f \in b[i] : f.digest = e.digest /\ e.sigs \subseteq f.sigs
    BY <1>2 DEF Within
  <2>2. PICK g \in c[i] : g.digest = f.digest /\ f.sigs \subseteq g.sigs
    BY <1>2 DEF Within
  <2>. QED BY <2>1, <2>2
<1>. QED BY <1>1, <1>2

\* The leaf that upsert writes keeps what it found and adds what it brings.
LEMMA LeafFacts ==
  ASSUME NEW r \in Upload, OneLeaf(r.snap), NewLeaf(r) # {}
  PROVE  \E e \in Leaf :
           /\ NewLeaf(r) = {e} /\ e.digest = r.digest /\ r.sigs \subseteq e.sigs
           /\ \A f \in r.snap[r.item] : f.digest = e.digest /\ f.sigs \subseteq e.sigs
<1>0. r.item \in Item /\ r.digest \in Digest /\ r.sigs \in SUBSET Sig /\ r.snap \in Tree
  BY DEF Upload
<1>1. CASE r.snap[r.item] = {}
  <2>. DEFINE e == [digest |-> r.digest, sigs |-> r.sigs]
  <2>1. NewLeaf(r) = {e} /\ e \in Leaf
    BY <1>0, <1>1 DEF NewLeaf, Existing, Leaf
  <2>. QED BY <1>1, <2>1
<1>2. CASE r.snap[r.item] # {}
  <2>1. PICK f \in Leaf : r.snap[r.item] = {f}
    BY <1>0, <1>2 DEF OneLeaf
  <2>. DEFINE e == [f EXCEPT !.sigs = @ \cup r.sigs]
  <2>2. f.digest = r.digest /\ NewLeaf(r) = {e}
    BY <2>1 DEF NewLeaf, Existing
  <2>3. e \in Leaf /\ e.digest = r.digest /\ e.sigs = f.sigs \cup r.sigs
    BY <1>0, <2>2 DEF Leaf
  <2>. QED BY <2>1, <2>2, <2>3
<1>. QED BY <1>1, <1>2

\* An upload that adds nothing found its digest and its signatures.
LEMMA NothingToAdd ==
  ASSUME NEW r \in Upload, OneLeaf(r.snap), NewLeaf(r) = {}, ~Raises(r), ~Conflicts(r)
  PROVE  \E e \in r.snap[r.item] : e.digest = r.digest /\ r.sigs \subseteq e.sigs
<1>0. r.item \in Item
  BY DEF Upload
<1>1. r.snap[r.item] # {}
  BY DEF NewLeaf, Existing
<1>2. PICK e \in Leaf : r.snap[r.item] = {e}
  BY <1>0, <1>1 DEF OneLeaf
<1>3. e.digest = r.digest
  BY <1>0, <1>1, <1>2 DEF Raises, Conflicts, Existing
<1>4. r.sigs \subseteq e.sigs
  BY <1>2, <1>3, ZenonT(40) DEF NewLeaf, Existing
<1>. QED BY <1>2, <1>3, <1>4

\* Steps of an upload that leave the documents alone.
LEMMA UploadOnly ==
  ASSUME CatalogInv, NEW u \in Uploader, NEW r \in Upload \cup {Free},
         up' = [up EXCEPT ![u] = r], r.pc = "put" => CopyOK(r),
         UNCHANGED <<catalog, cas, kept>>
  PROVE  CatalogInv'
<1>. USE DEF CatalogInv
<1>1. CatalogTypeOK'
  BY DEF CatalogTypeOK
<1>2. \A v \in Uploader : up'[v].pc = "put" => CopyOK(up'[v])
  BY DEF CatalogTypeOK
<1>3. \A v \in Uploader : (up[v].pc = "put" => CopyOK(up[v]))'
  BY <1>2 DEF CopyOK, Within, OneLeaf
<1>. QED BY <1>1, <1>3 DEF OneLeaf, CatalogKeepsEntries

\* upsert writes back the document it read, with one leaf more or larger; the
\* compare-and-swap makes that the current one, so that nothing is undone.
LEMMA PutStep ==
  ASSUME CatalogInv, NEW u \in Uploader, PutLeaf(u)
  PROVE  CatalogInv' /\ Within(catalog, catalog')
<1>. DEFINE r == up[u]
<1>. USE DEF CatalogInv
<1>0. /\ r \in Upload /\ CopyOK(r) /\ r.snap = catalog /\ r.item \in Item
      /\ r.digest \in Digest /\ r.sigs \in SUBSET Sig
      /\ catalog \in Tree /\ cas \in Nat
  BY DEF PutLeaf, CasMatches, CatalogTypeOK, Upload, CopyOK, Free
<1>1. PICK e \in Leaf :
        /\ NewLeaf(r) = {e} /\ e.digest = r.digest /\ r.sigs \subseteq e.sigs
        /\ \A f \in r.snap[r.item] : f.digest = e.digest /\ f.sigs \subseteq e.sigs
  BY <1>0, LeafFacts DEF PutLeaf, CopyOK
<1>2. /\ catalog' = [catalog EXCEPT ![r.item] = {e}]
      /\ cas' = cas + 1
      /\ kept' = kept \cup {[item |-> r.item, digest |-> r.digest, sigs |-> r.sigs]}
      /\ up' = [up EXCEPT ![u] = Free]
  BY <1>0, <1>1 DEF PutLeaf, Answer
<1>. HIDE DEF r
<1>3. catalog' \in Tree
  BY <1>0, <1>2 DEF Tree
<1>4. Within(catalog, catalog')
  BY <1>0, <1>1, <1>2 DEF Within, Tree
<1>5. CatalogTypeOK'
  BY <1>0, <1>2, <1>3 DEF CatalogTypeOK, Receipt
<1>6. OneLeaf(catalog')
  BY <1>0, <1>2 DEF OneLeaf, Tree
<1>7. ASSUME NEW v \in Uploader, up'[v].pc = "put" PROVE CopyOK(up[v])' /\ v # u
  <2>1. up'[v] = up[v] /\ v # u
    BY <1>2, <1>7 DEF CatalogTypeOK, Free
  <2>2. CopyOK(up[v]) /\ up[v] \in Upload /\ up[v].snap \in Tree /\ up[v].seen \in Nat
    BY <1>7, <2>1 DEF CatalogTypeOK, Upload, Free
  <2>3. Within(up[v].snap, catalog')
    BY <1>0, <1>3, <1>4, <2>2, WithinOrder DEF CopyOK
  <2>4. up[v].seen < cas'
    BY <1>0, <1>2, <2>2 DEF CopyOK
  <2>. QED BY <1>0, <1>2, <2>1, <2>2, <2>3, <2>4 DEF CopyOK
<1>8. CatalogKeepsEntries'
  <2>. SUFFICES ASSUME NEW k \in kept'
                PROVE  \E f \in catalog'[k.item] : f.digest = k.digest /\ k.sigs \subseteq f.sigs
    BY DEF CatalogKeepsEntries
  <2>1. CASE k \in kept
    <3>1. k.item \in Item
      BY <2>1 DEF CatalogTypeOK, Receipt
    <3>2. PICK f \in catalog[k.item] : f.digest = k.digest /\ k.sigs \subseteq f.sigs
      BY <2>1 DEF CatalogKeepsEntries
    <3>3. PICK g \in catalog'[k.item] : g.digest = f.digest /\ f.sigs \subseteq g.sigs
      BY <1>4, <3>1 DEF Within
    <3>. QED BY <3>2, <3>3
  <2>2. CASE k = [item |-> r.item, digest |-> r.digest, sigs |-> r.sigs]
    BY <1>0, <1>1, <1>2, <2>2 DEF Tree
  <2>. QED BY <1>2, <2>1, <2>2
<1>. QED BY <1>4, <1>5, <1>6, <1>7, <1>8

\* An upload that finds its entry may have read an old document; the entry is
\* still there.
LEMMA UnchangedStep ==
  ASSUME CatalogInv, NEW u \in Uploader, Unchanged(u)
  PROVE  CatalogInv'
<1>. DEFINE r == up[u]
<1>. USE DEF CatalogInv
<1>0. /\ r \in Upload /\ CopyOK(r) /\ r.item \in Item /\ r.digest \in Digest /\ r.sigs \in SUBSET Sig
  BY DEF Unchanged, CatalogTypeOK, Upload, Free
<1>1. /\ UNCHANGED <<catalog, cas>>
      /\ kept' = kept \cup {[item |-> r.item, digest |-> r.digest, sigs |-> r.sigs]}
      /\ up' = [up EXCEPT ![u] = Free]
  BY DEF Unchanged, Answer
<1>2. PICK e \in r.snap[r.item] : e.digest = r.digest /\ r.sigs \subseteq e.sigs
  BY <1>0, NothingToAdd DEF Unchanged, CopyOK
<1>3. PICK f \in catalog[r.item] : f.digest = e.digest /\ e.sigs \subseteq f.sigs
  BY <1>0, <1>2 DEF CopyOK, Within
<1>. HIDE DEF r
<1>4. CatalogTypeOK'
  BY <1>0, <1>1 DEF CatalogTypeOK, Receipt
<1>5. CatalogKeepsEntries'
  BY <1>1, <1>2, <1>3 DEF CatalogKeepsEntries
<1>6. \A v \in Uploader : (up[v].pc = "put" => CopyOK(up[v]))'
  <2>1. \A v \in Uploader : up'[v].pc = "put" => CopyOK(up'[v])
    BY <1>1 DEF CatalogTypeOK, Free
  <2>. QED BY <1>1, <2>1 DEF CopyOK, Within, OneLeaf
<1>. QED BY <1>1, <1>4, <1>5, <1>6 DEF OneLeaf

\* Every other step of the uploads.
LEMMA CatalogSteps ==
  ASSUME CatalogInv, CatalogNext
  PROVE  CatalogInv' /\ Within(catalog, catalog')
<1>. USE DEF CatalogInv
<1>0. catalog' = catalog => Within(catalog, catalog')
  BY WithinOrder DEF CatalogTypeOK
<1>1. ASSUME NEW u \in Uploader, NEW i \in Item, NEW d \in Digest, NEW S \in SUBSET Sig,
             Push(u, i, d, S)
      PROVE  CatalogInv' /\ Within(catalog, catalog')
  <2>. DEFINE r == [pc |-> "get", item |-> i, digest |-> d, sigs |-> S, tries |-> 0, seen |-> 0,
                    snap |-> catalog]
  <2>1. r \in Upload /\ r.pc # "put"
    BY DEF Upload, CatalogTypeOK
  <2>2. up' = [up EXCEPT ![u] = r] /\ UNCHANGED <<catalog, cas, kept>>
    BY <1>1 DEF Push
  <2>. HIDE DEF r
  <2>. QED BY <1>0, <2>1, <2>2, UploadOnly
<1>2. ASSUME NEW u \in Uploader, GetCatalog(u) PROVE CatalogInv' /\ Within(catalog, catalog')
  <2>1. up[u] \in Upload
    BY <1>2 DEF GetCatalog, CatalogTypeOK, Free
  <2>2. CASE made
    <3>. DEFINE r == [up[u] EXCEPT !.pc = "put", !.seen = cas, !.snap = catalog]
    <3>1. r \in Upload /\ r.seen = cas /\ r.snap = catalog
      BY <2>1 DEF Upload, CatalogTypeOK
    <3>2. up' = [up EXCEPT ![u] = r] /\ UNCHANGED <<catalog, cas, kept>>
      BY <1>2, <2>2 DEF GetCatalog
    <3>. HIDE DEF r
    <3>3. CopyOK(r)
      BY <1>0, <3>1, WithinOrder DEF CopyOK, CatalogTypeOK
    <3>. QED BY <1>0, <3>1, <3>2, <3>3, UploadOnly
  <2>3. CASE ~made
    <3>. DEFINE r == [up[u] EXCEPT !.pc = "insert"]
    <3>1. r \in Upload /\ r.pc # "put"
      BY <2>1 DEF Upload
    <3>2. up' = [up EXCEPT ![u] = r] /\ UNCHANGED <<catalog, cas, kept>>
      BY <1>2, <2>3 DEF GetCatalog
    <3>. HIDE DEF r
    <3>. QED BY <1>0, <3>1, <3>2, UploadOnly
  <2>. QED BY <2>2, <2>3
<1>3. ASSUME NEW u \in Uploader, InsertSkeleton(u) PROVE CatalogInv' /\ Within(catalog, catalog')
  <2>1. up[u] \in Upload
    BY <1>3 DEF InsertSkeleton, CatalogTypeOK, Free
  <2>. DEFINE r == [up[u] EXCEPT !.pc = "get", !.tries = @ + 1]
  <2>2. r \in Upload /\ r.pc # "put"
    <3>1. up[u].tries + 1 \in Nat
      BY <2>1 DEF Upload
    <3>. HIDE DEF CatalogInv
    <3>. QED BY <2>1, <3>1 DEF Upload
  <2>3. up' = [up EXCEPT ![u] = r] /\ UNCHANGED <<catalog, kept>> /\ cas' \in {cas, cas + 1}
    BY <1>3, <2>1 DEF InsertSkeleton, Upload, CatalogTypeOK
  <2>. HIDE DEF r
  <2>4. CatalogTypeOK'
    BY <2>2, <2>3 DEF CatalogTypeOK
  <2>5. ASSUME NEW v \in Uploader, up'[v].pc = "put" PROVE CopyOK(up[v])'
    <3>1. up'[v] = up[v]
      BY <2>2, <2>3, <2>5 DEF CatalogTypeOK
    <3>2. CopyOK(up[v]) /\ up[v].seen \in Nat /\ cas \in Nat
      BY <2>5, <3>1 DEF CatalogTypeOK, Upload, Free
    <3>. QED BY <2>3, <3>1, <3>2 DEF CopyOK, Within, OneLeaf
  <2>. QED BY <1>0, <2>3, <2>4, <2>5 DEF OneLeaf, CatalogKeepsEntries
<1>4. ASSUME NEW u \in Uploader, CasMismatch(u) PROVE CatalogInv' /\ Within(catalog, catalog')
  <2>1. up[u] \in Upload
    BY <1>4 DEF CasMismatch, CatalogTypeOK, Free
  <2>. DEFINE r == [up[u] EXCEPT !.pc = "get", !.tries = @ + 1]
  <2>2. r \in Upload /\ r.pc # "put"
    <3>1. up[u].tries + 1 \in Nat
      BY <2>1 DEF Upload
    <3>. HIDE DEF CatalogInv
    <3>. QED BY <2>1, <3>1 DEF Upload
  <2>3. up' = [up EXCEPT ![u] = r] /\ UNCHANGED <<catalog, cas, kept>>
    BY <1>4, <2>1 DEF CasMismatch, Upload, CatalogTypeOK
  <2>. HIDE DEF r
  <2>. QED BY <1>0, <2>2, <2>3, UploadOnly
<1>5. ASSUME NEW u \in Uploader, Conflict(u) \/ UploadFails(u)
      PROVE  CatalogInv' /\ Within(catalog, catalog')
  <2>1. up' = [up EXCEPT ![u] = Free] /\ UNCHANGED <<catalog, cas, kept>> /\ Free.pc # "put"
    BY <1>5 DEF Conflict, Answer, UploadFails, Free
  <2>. QED BY <1>0, <2>1, UploadOnly
<1>6. ASSUME NEW u \in Uploader, Unchanged(u) PROVE CatalogInv' /\ Within(catalog, catalog')
  BY <1>0, <1>6, UnchangedStep DEF Unchanged
<1>7. ASSUME NEW s \in services, DeleteService(s) PROVE CatalogInv' /\ Within(catalog, catalog')
  <2>1. UNCHANGED <<catalog, cas, up, kept>>
    BY <1>7 DEF DeleteService
  <2>2. CatalogTypeOK' /\ OneLeaf(catalog)' /\ CatalogKeepsEntries'
    BY <2>1 DEF CatalogTypeOK, OneLeaf, CatalogKeepsEntries
  <2>3. ASSUME NEW u \in Uploader, up'[u].pc = "put" PROVE CopyOK(up[u])'
    <3>1. up'[u] = up[u] /\ CopyOK(up[u])
      BY <2>1, <2>3
    <3>. QED BY <2>1, <3>1 DEF CopyOK, Within, OneLeaf
  <2>. QED BY <1>0, <2>1, <2>2, <2>3
<1>. QED BY <1>1, <1>2, <1>3, <1>4, <1>5, <1>6, <1>7, PutStep DEF CatalogNext

-----------------------------------------------------------------------------
(***************************************************************************)
(* ServiceCatalog: the launcher.                                           *)
(***************************************************************************)
LaunchInv ==
  /\ starts \in Seq(Name \X Image)
  /\ DOMAIN container = Name /\ DOMAIN latest = Name
  /\ LastStartRuns

\* A start command replaces what has the name; a failure marks the name.
LEMMA LaunchSteps == ASSUME LaunchInv, LaunchNext PROVE LaunchInv'
<1>. USE DEF LaunchInv
<1>1. ASSUME NEW n \in Name, NEW g \in Image, SendStart(n, g) PROVE LaunchInv'
  BY <1>1 DEF SendStart, LastStartRuns
<1>2. ASSUME starts # <<>>
      PROVE  /\ Head(starts)[1] \in Name /\ Head(starts)[2] \in Image
             /\ Tail(starts) \in Seq(Name \X Image)
  <2>1. Head(starts) \in Name \X Image /\ Tail(starts) \in Seq(Name \X Image)
    BY <1>2
  <2>. QED BY <2>1
<1>3. CASE StartTask
  <2>. DEFINE n == Head(starts)[1]
              g == Head(starts)[2]
  <2>1. starts # <<>>
    BY <1>3 DEF StartTask
  <2>2. /\ container' = [container EXCEPT ![n] = Running(g)]
        /\ latest' = [latest EXCEPT ![n] = {g}]
        /\ shaken' = shaken \ {n} /\ starts' = Tail(starts)
    BY <1>3 DEF StartTask, CreateAndStart, RunContainerCli
  <2>3. n \in Name
    BY <1>2, <2>1
  <2>. HIDE DEF n, g
  <2>4. \A m \in Name : IF m = n THEN container'[m] = Running(g) /\ latest'[m] = {g}
                                 ELSE container'[m] = container[m] /\ latest'[m] = latest[m]
    BY <2>2, <2>3
  <2>5. LastStartRuns'
    BY <2>2, <2>4 DEF LastStartRuns, Running
  <2>. QED BY <1>2, <2>1, <2>2, <2>5
<1>4. CASE StartTaskFails
  <2>. DEFINE n == Head(starts)[1]
              g == Head(starts)[2]
  <2>1. starts # <<>>
    BY <1>4 DEF StartTaskFails
  <2>2. PICK b : container' = [container EXCEPT ![n] = b]
    BY <1>4 DEF StartTaskFails
  <2>3. /\ latest' = [latest EXCEPT ![n] = {g}]
        /\ shaken' = shaken \cup {n} /\ starts' = Tail(starts)
    BY <1>4 DEF StartTaskFails
  <2>. HIDE DEF n, g
  <2>4. \A m \in Name : m # n => container'[m] = container[m] /\ latest'[m] = latest[m]
    BY <2>2, <2>3
  <2>5. LastStartRuns'
    BY <2>3, <2>4 DEF LastStartRuns
  <2>. QED BY <1>2, <2>1, <2>2, <2>3, <2>5
<1>5. ASSUME NEW n \in Name, ContainerExits(n) PROVE LaunchInv'
  BY <1>5 DEF ContainerExits, LastStartRuns
<1>. QED BY <1>1, <1>3, <1>4, <1>5 DEF LaunchNext

\* At the start there are no entries, no uploads and no containers.
LEMMA ServiceStart == CatalogInit => CatalogInv /\ LaunchInv
<1>. SUFFICES ASSUME CatalogInit PROVE CatalogInv /\ LaunchInv
  OBVIOUS
<1>1. CatalogInv
  BY DEF CatalogInit, CatalogInv, CatalogTypeOK, OneLeaf, CatalogKeepsEntries, Free, Tree
<1>2. LaunchInv
  BY DEF CatalogInit, LaunchInv, LastStartRuns
<1>. QED BY <1>1, <1>2

\* Uploads and launches do not meet, and stuttering changes nothing.
LEMMA ServiceNext ==
  ASSUME CatalogInv, LaunchInv, [CatalogNext \/ LaunchNext]_serviceVars
  PROVE  CatalogInv' /\ LaunchInv' /\ Within(catalog, catalog')
<1>1. ASSUME UNCHANGED catalogVars PROVE CatalogInv' /\ Within(catalog, catalog')
  <2>1. UNCHANGED <<catalog, cas, up, kept>>
    BY <1>1 DEF catalogVars
  <2>2. CatalogInv'
    BY <2>1 DEF CatalogInv, CatalogTypeOK, OneLeaf, CopyOK, Within, CatalogKeepsEntries
  <2>. QED BY <2>1, <2>2, WithinOrder DEF CatalogInv, CatalogTypeOK
<1>2. ASSUME UNCHANGED launchVars PROVE LaunchInv'
  BY <1>2 DEF launchVars, LaunchInv, LastStartRuns
<1>3. CASE CatalogNext
  <2>1. UNCHANGED launchVars
    BY <1>3 DEF CatalogNext, Push, GetCatalog, InsertSkeleton, PutLeaf, CasMismatch, Unchanged,
                Conflict, UploadFails, DeleteService
  <2>. QED BY <1>2, <1>3, <2>1, CatalogSteps
<1>4. CASE LaunchNext
  <2>1. UNCHANGED catalogVars
    BY <1>4 DEF LaunchNext, SendStart, StartTask, StartTaskFails, ContainerExits
  <2>. QED BY <1>1, <1>4, <2>1, LaunchSteps
<1>5. CASE UNCHANGED serviceVars
  BY <1>1, <1>2, <1>5 DEF serviceVars
<1>. QED BY <1>3, <1>4, <1>5

\* However many uploads race on a user's catalog document, every upload that
\* upsert reported as created, updated or unchanged stays in the catalog with its
\* digest and all its signatures (UserCatalogStore.upsert).
THEOREM EntriesAreKept == ServiceSpec => []CatalogKeepsEntries
<1>1. CatalogInv => CatalogKeepsEntries
  BY DEF CatalogInv
<1>. QED BY ServiceStart, ServiceNext, <1>1, PTL DEF ServiceSpec

\* No step of any upload takes an entry or a signature out of the catalog.
THEOREM CatalogOnlyGrows == ServiceSpec => [][Within(catalog, catalog')]_serviceVars
<1>1. CatalogInv /\ LaunchInv /\ [CatalogNext \/ LaunchNext]_serviceVars
        => [Within(catalog, catalog')]_serviceVars
  BY ServiceNext
<1>. QED BY ServiceStart, ServiceNext, <1>1, PTL DEF ServiceSpec

\* For any number of services and commands, a container that runs under a name
\* runs the image of the last start command for it, unless Docker failed on that
\* command (_handle_start_task, run_container_cli).
THEOREM LastStartWins == ServiceSpec => []LastStartRuns
<1>1. LaunchInv => LastStartRuns
  BY DEF LaunchInv
<1>. QED BY ServiceStart, ServiceNext, <1>1, PTL DEF ServiceSpec

-----------------------------------------------------------------------------
(***************************************************************************)
(* CommandConsumers.  The queue is a sequence; the argument is about the   *)
(* set of the commands in it, so the operations on it come first.          *)
(***************************************************************************)
Msg == [id : 1..MaxCommands, readable : BOOLEAN]
Ids(s) == {s[k].id : k \in 1..Len(s)}
Distinct(s) == \A j, k \in 1..Len(s) : s[j].id = s[k].id => j = k

\* The ids of a sequence, through the set of its elements.
LEMMA IdsOfSet == ASSUME NEW s \in Seq(Msg) PROVE {m.id : m \in ToSet(s)} = Ids(s)
BY DEF ToSet, Ids

\* Nothing and one message.
LEMMA IdsOfOne ==
  /\ Ids(<<>>) = {} /\ Distinct(<<>>)
  /\ \A m \in Msg : Ids(<<m>>) = {m.id} /\ <<m>> \in Seq(Msg)
<1>1. Ids(<<>>) = {} /\ Distinct(<<>>)
  BY DEF Ids, Distinct
<1>2. ASSUME NEW m \in Msg PROVE Ids(<<m>>) = {m.id} /\ <<m>> \in Seq(Msg)
  BY DEF Ids
<1>. QED BY <1>1, <1>2

\* A message joins the end of the queue.
LEMMA IdsOfAppend ==
  ASSUME NEW s \in Seq(Msg), NEW m \in Msg
  PROVE  /\ Append(s, m) \in Seq(Msg) /\ Ids(Append(s, m)) = Ids(s) \cup {m.id}
         /\ Distinct(s) /\ m.id \notin Ids(s) => Distinct(Append(s, m))
<1>. DEFINE a == Append(s, m)
<1>1. /\ a \in Seq(Msg) /\ Len(a) = Len(s) + 1 /\ Len(s) \in Nat
      /\ a[Len(s) + 1] = m /\ \A k \in 1..Len(s) : a[k] = s[k]
  OBVIOUS
<1>. HIDE DEF a
<1>2. Ids(a) = Ids(s) \cup {m.id}
  BY <1>1 DEF Ids
<1>3. Distinct(s) /\ m.id \notin Ids(s) => Distinct(a)
  BY <1>1 DEF Ids, Distinct
<1>. QED BY <1>1, <1>2, <1>3 DEF a

\* The first message leaves the queue.
LEMMA IdsOfTail ==
  ASSUME NEW s \in Seq(Msg), s # <<>>
  PROVE  /\ Head(s) \in Msg /\ Tail(s) \in Seq(Msg)
         /\ Ids(s) = Ids(Tail(s)) \cup {Head(s).id}
         /\ Distinct(s) => Distinct(Tail(s)) /\ Head(s).id \notin Ids(Tail(s))
<1>. DEFINE a == Tail(s)
<1>1. /\ a \in Seq(Msg) /\ Head(s) \in Msg /\ Head(s) = s[1]
      /\ Len(s) \in Nat /\ Len(s) > 0 /\ Len(a) = Len(s) - 1 /\ \A k \in 1..Len(a) : a[k] = s[k + 1]
  OBVIOUS
<1>. HIDE DEF a
<1>2. Ids(s) = Ids(a) \cup {Head(s).id}
  <2>1. ASSUME NEW k \in 1..Len(s) PROVE k = 1 \/ (k - 1 \in 1..Len(a) /\ s[k] = a[k - 1])
    BY <1>1
  <2>2. ASSUME NEW k \in 1..Len(a) PROVE k + 1 \in 1..Len(s) /\ s[k + 1] = a[k]
    BY <1>1
  <2>3. \A k \in 1..Len(s) : s[k].id \in Ids(a) \cup {Head(s).id}
    BY <1>1, <2>1 DEF Ids
  <2>4. \A k \in 1..Len(a) : a[k].id \in Ids(s)
    BY <2>2 DEF Ids
  <2>5. Head(s).id \in Ids(s)
    BY <1>1 DEF Ids
  <2>. QED BY <2>3, <2>4, <2>5 DEF Ids
<1>3. Distinct(s) => Distinct(a)
  BY <1>1 DEF Distinct
<1>4. Distinct(s) => Head(s).id \notin Ids(a)
  BY <1>1 DEF Distinct, Ids
<1>. QED BY <1>1, <1>2, <1>3, <1>4 DEF a

\* A message comes back to the front of the queue.
LEMMA IdsOfReturn ==
  ASSUME NEW s \in Seq(Msg), NEW m \in Msg
  PROVE  /\ <<m>> \o s \in Seq(Msg) /\ Ids(<<m>> \o s) = Ids(s) \cup {m.id}
         /\ Distinct(s) /\ m.id \notin Ids(s) => Distinct(<<m>> \o s)
<1>. DEFINE a == <<m>> \o s
<1>1. /\ a \in Seq(Msg) /\ Len(a) = Len(s) + 1 /\ Len(s) \in Nat
      /\ a[1] = m /\ \A k \in 1..Len(s) : a[k + 1] = s[k]
  OBVIOUS
<1>. HIDE DEF a
<1>2. ASSUME NEW k \in 1..Len(a) PROVE k = 1 \/ (k - 1 \in 1..Len(s) /\ a[k] = s[k - 1])
  BY <1>1
<1>3. Ids(a) = Ids(s) \cup {m.id}
  <2>1. ASSUME NEW k \in 1..Len(s) PROVE k + 1 \in 1..Len(a) /\ a[k + 1] = s[k]
    BY <1>1
  <2>2. \A k \in 1..Len(a) : a[k].id \in Ids(s) \cup {m.id}
    BY <1>1, <1>2 DEF Ids
  <2>3. \A k \in 1..Len(s) : s[k].id \in Ids(a)
    BY <2>1 DEF Ids
  <2>4. m.id \in Ids(a)
    BY <1>1 DEF Ids
  <2>. QED BY <2>2, <2>3, <2>4 DEF Ids
<1>4. ASSUME Distinct(s), m.id \notin Ids(s) PROVE Distinct(a)
  <2>. SUFFICES ASSUME NEW j \in 1..Len(a), NEW k \in 1..Len(a), a[j].id = a[k].id, j # k
                PROVE  FALSE
    BY DEF Distinct
  <2>1. CASE j = 1 \/ k = 1
    BY <1>1, <1>2, <1>4, <2>1 DEF Ids
  <2>2. CASE j # 1 /\ k # 1
    <3>1. j - 1 \in 1..Len(s) /\ k - 1 \in 1..Len(s) /\ a[j] = s[j - 1] /\ a[k] = s[k - 1]
      BY <1>2, <2>2
    <3>2. j - 1 = k - 1
      BY <1>4, <3>1 DEF Distinct
    <3>. QED BY <3>2
  <2>. QED BY <2>1, <2>2
<1>. QED BY <1>1, <1>3, <1>4 DEF a

(***************************************************************************)
(* The inductive invariant.  The queue has no command twice, none that is  *)
(* at work, and exactly the issued ones whose fate is open are in one of   *)
(* the two places.  A command that was never brought back by a restart has *)
(* at most the one effect its state shows.                                 *)
(***************************************************************************)
Command == 1..MaxCommands
Fate == {"none", "done", "handled", "unreadable", "failed", "lost", "unrouted"}

CommandTypeOK ==
  /\ pending \in Seq(Msg)
  /\ atWork # <<>> => \E m \in Msg : atWork = <<m>>
  /\ settled \in [Command -> Fate] /\ effects \in [Command -> Nat]
  /\ issued \in 0..MaxCommands

Undecided(i) == settled[i] \in {"none", "done"}

PlacesOK ==
  /\ Distinct(pending) /\ Ids(pending) \cap Ids(atWork) = {}
  /\ \A i \in Command : i \in Ids(pending) \cup Ids(atWork) <=> i <= issued /\ Undecided(i)

EffectsOK ==
  \A i \in Command :
    /\ i > issued => settled[i] = "none" /\ effects[i] = 0
    /\ settled[i] \in {"done", "handled"} => effects[i] >= 1
    /\ i \notin returned => effects[i] <= (IF settled[i] = "none" THEN 0 ELSE 1)

CommandInv == CommandTypeOK /\ PlacesOK /\ EffectsOK

\* The command at work.
LEMMA AtWorkFacts ==
  ASSUME CommandInv, atWork # <<>>
  PROVE  /\ Head(atWork) \in Msg /\ atWork = <<Head(atWork)>> /\ Head(atWork).id \in Command
         /\ Ids(atWork) = {Head(atWork).id} /\ Head(atWork).id \notin Ids(pending)
         /\ Head(atWork).id <= issued /\ Undecided(Head(atWork).id)
<1>1. PICK m \in Msg : atWork = <<m>>
  BY DEF CommandInv, CommandTypeOK
<1>2. Head(atWork) = m /\ m.id \in Command
  BY <1>1 DEF Msg, Command
<1>3. Ids(atWork) = {m.id}
  BY <1>1, IdsOfOne
<1>. QED BY <1>1, <1>2, <1>3 DEF CommandInv, PlacesOK

\* The command at work, through the set of the messages at work.
LEMMA AtWorkIds == ASSUME CommandInv PROVE {m.id : m \in ToSet(atWork)} = Ids(atWork)
<1>1. CASE atWork = <<>>
  BY <1>1, IdsOfOne DEF ToSet
<1>2. CASE atWork # <<>>
  BY <1>2, IdsOfOne, IdsOfSet DEF CommandInv, CommandTypeOK
<1>. QED BY <1>1, <1>2

\* Work that ends without success is settled; with a queue that is not durable
\* everything in it is settled as well.
LEMMA WorkEnds ==
  ASSUME CommandInv, atWork # <<>>, atWork' = <<>>, UNCHANGED <<effects, returned, issued>>,
         NEW how \in {"unreadable", "failed"}, NEW L,
         settled' = [Gone(L, "lost") EXCEPT ![Head(atWork).id] = how],
         \/ L = {} /\ pending' = pending
         \/ L = Ids(pending) /\ pending' = <<>>
  PROVE  CommandInv'
<1>. DEFINE h == Head(atWork).id
<1>. USE DEF CommandInv
<1>1. /\ h \in Command /\ Ids(atWork) = {h} /\ h \notin Ids(pending) /\ h <= issued /\ Undecided(h)
  BY AtWorkFacts
<1>. HIDE DEF h
<1>2. /\ settled' \in [Command -> Fate] /\ settled'[h] = how
      /\ \A i \in Command \ {h} : settled'[i] = IF i \in L THEN "lost" ELSE settled[i]
  <2>. DEFINE g == Gone(L, "lost")
  <2>1. g = [i \in Command |-> IF i \in L THEN "lost" ELSE settled[i]]
    BY DEF Gone, CommandTypeOK
  <2>2. g \in [Command -> Fate] /\ \A i \in Command : g[i] = IF i \in L THEN "lost" ELSE settled[i]
    BY <2>1 DEF CommandTypeOK, Fate
  <2>3. settled' = [g EXCEPT ![h] = how] /\ how \in Fate
    BY DEF h, Fate
  <2>. HIDE DEF g
  <2>. QED BY <1>1, <2>2, <2>3
<1>3. Ids(atWork') = {} /\ Ids(<<>>) = {} /\ Distinct(<<>>)
  BY IdsOfOne
<1>4. Distinct(pending') /\ Ids(pending') = Ids(pending) \ L /\ pending' \in Seq(Msg)
  <2>1. CASE L = {} /\ pending' = pending
    BY <2>1 DEF PlacesOK, CommandTypeOK
  <2>2. CASE L = Ids(pending) /\ pending' = <<>>
    BY <1>3, <2>2
  <2>. QED BY <2>1, <2>2
<1>5. CommandTypeOK'
  BY <1>2, <1>4 DEF CommandTypeOK
<1>6. PlacesOK'
  <2>1. L \subseteq Ids(pending)
    OBVIOUS
  <2>2. ASSUME NEW i \in Command
        PROVE  i \in Ids(pending') \cup Ids(atWork') <=> i <= issued' /\ settled'[i] \in {"none", "done"}
    <3>1. i \in Ids(pending) \cup {h} <=> i <= issued /\ settled[i] \in {"none", "done"}
      BY <1>1 DEF PlacesOK, Undecided
    <3>. QED BY <1>1, <1>2, <1>3, <1>4, <2>1, <3>1
  <2>. QED BY <1>3, <1>4, <2>2 DEF PlacesOK, Undecided
<1>7. EffectsOK'
  <2>. SUFFICES ASSUME NEW i \in Command
                PROVE  /\ i > issued => settled'[i] = "none" /\ effects[i] = 0
                       /\ settled'[i] \in {"done", "handled"} => effects[i] >= 1
                       /\ i \notin returned => effects[i] <= (IF settled'[i] = "none" THEN 0 ELSE 1)
    BY DEF EffectsOK
  <2>0. effects[i] \in Nat /\ issued \in Nat /\ i \in Nat /\ h \in Nat
    BY <1>1, CommandAssumption DEF CommandTypeOK, Command
  <2>1. \/ settled'[i] = settled[i]
        \/ i <= issued /\ settled'[i] \notin {"none", "done", "handled"}
    BY <1>1, <1>2 DEF PlacesOK
  <2>. QED BY <2>0, <2>1 DEF EffectsOK
<1>. QED BY <1>5, <1>6, <1>7

\* Settling without losing anything else.
LEMMA GoneNobody == ASSUME CommandTypeOK PROVE Gone({}, "lost") = settled
BY DEF Gone, CommandTypeOK

\* Messages that cannot be read, and handlers that raise.
LEMMA FailedWork == ASSUME CommandInv, Unreadable \/ HandlerRaises PROVE CommandInv'
<1>. DEFINE h == Head(atWork).id
<1>0. /\ atWork # <<>> /\ atWork' = <<>> /\ UNCHANGED <<effects, returned, issued>>
      /\ CommandTypeOK /\ Gone({}, "lost") = settled
  BY GoneNobody DEF Unreadable, HandlerRaises, CommandInv
<1>1. PICK how \in {"unreadable", "failed"} :
        \/ Settle(h, how) /\ UNCHANGED pending
        \/ settled' = [Gone(LostWithQueue, "lost") EXCEPT ![h] = how] /\ AfterRaise
  BY DEF Unreadable, HandlerRaises
<1>2. CASE Settle(h, how) /\ UNCHANGED pending
  <2>1. settled' = [Gone({}, "lost") EXCEPT ![h] = how] /\ pending' = pending
    BY <1>0, <1>2 DEF Settle
  <2>. QED BY <1>0, <2>1, WorkEnds
<1>3. CASE settled' = [Gone(LostWithQueue, "lost") EXCEPT ![h] = how] /\ AfterRaise
  <2>1. LostWithQueue = IF me.durable THEN {} ELSE Ids(pending)
    BY <1>0, IdsOfSet DEF LostWithQueue, CommandTypeOK
  <2>2. pending' = IF me.durable THEN pending ELSE <<>>
    BY <1>3 DEF AfterRaise
  <2>. QED BY <1>0, <1>3, <2>1, <2>2, WorkEnds
<1>. QED BY <1>1, <1>2, <1>3

\* A command is sent: it joins the queue, or the broker drops it.
LEMMA CommandSent ==
  ASSUME CommandInv, NEW r \in BOOLEAN, SendCommand(r) \/ SendDirect(r)
  PROVE  CommandInv'
<1>. USE DEF CommandInv
<1>. DEFINE n == issued + 1
            m == [id |-> n, readable |-> r]
<1>1. /\ n \in Command /\ n \in Nat /\ n \in 0..MaxCommands /\ issued' = n
      /\ ~(n <= issued) /\ n > issued
      /\ m \in Msg /\ m.id = n
  BY CommandAssumption DEF SendCommand, SendDirect, CommandTypeOK, Command, Msg
<1>2. /\ UNCHANGED <<atWork, effects, returned>>
      /\ \/ pending' = Append(pending, m) /\ settled' = settled
         \/ pending' = pending /\ settled' = [settled EXCEPT ![n] = "unrouted"]
  BY <1>1 DEF SendCommand, SendDirect, Settle
<1>. HIDE DEF n, m
<1>3. n \notin Ids(pending) /\ n \notin Ids(atWork)
  BY <1>1 DEF PlacesOK
<1>4. \A i \in Command : i <= n <=> i <= issued \/ i = n
  BY <1>1 DEF n, Command, CommandTypeOK
<1>5. settled[n] = "none" /\ effects[n] = 0
  BY <1>1 DEF EffectsOK
<1>6. CASE pending' = Append(pending, m) /\ settled' = settled
  <2>1. /\ pending' \in Seq(Msg) /\ Distinct(pending') /\ Ids(pending') = Ids(pending) \cup {n}
    BY <1>1, <1>3, <1>6, IdsOfAppend DEF CommandTypeOK, PlacesOK
  <2>2. CommandTypeOK'
    BY <1>1, <1>2, <1>6, <2>1 DEF CommandTypeOK
  <2>3. PlacesOK'
    BY <1>1, <1>2, <1>3, <1>4, <1>5, <1>6, <2>1 DEF PlacesOK, Undecided
  <2>4. EffectsOK'
    BY <1>1, <1>2, <1>4, <1>6 DEF EffectsOK, CommandTypeOK, Command
  <2>. QED BY <2>2, <2>3, <2>4
<1>7. CASE pending' = pending /\ settled' = [settled EXCEPT ![n] = "unrouted"]
  <2>1. /\ settled' \in [Command -> Fate] /\ settled'[n] = "unrouted"
        /\ \A i \in Command \ {n} : settled'[i] = settled[i]
    BY <1>1, <1>7 DEF CommandTypeOK, Fate
  <2>2. CommandTypeOK'
    BY <1>1, <1>2, <1>7, <2>1 DEF CommandTypeOK
  <2>3. PlacesOK'
    BY <1>1, <1>2, <1>3, <1>4, <1>7, <2>1 DEF PlacesOK, Undecided
  <2>4. EffectsOK'
    BY <1>1, <1>2, <1>4, <1>5, <2>1 DEF EffectsOK, CommandTypeOK, Command
  <2>. QED BY <2>2, <2>3, <2>4
<1>. QED BY <1>2, <1>6, <1>7

\* A message goes from the head of the queue to the handler.
LEMMA CommandTaken == ASSUME CommandInv, TakeCommand PROVE CommandInv'
<1>. USE DEF CommandInv
<1>1. /\ pending \in Seq(Msg) /\ pending # <<>> /\ atWork = <<>> /\ atWork' = <<Head(pending)>>
      /\ pending' = Tail(pending) /\ UNCHANGED <<settled, effects, returned, issued>>
  BY DEF TakeCommand, CommandTypeOK
<1>2. /\ Head(pending) \in Msg /\ pending' \in Seq(Msg) /\ Distinct(pending')
      /\ Ids(pending) = Ids(pending') \cup {Head(pending).id}
      /\ Head(pending).id \notin Ids(pending')
  BY <1>1, IdsOfTail DEF PlacesOK
<1>3. Ids(atWork) = {} /\ Ids(atWork') = {Head(pending).id}
  BY <1>1, <1>2, IdsOfOne
<1>4. CommandTypeOK'
  BY <1>1, <1>2 DEF CommandTypeOK
<1>5. PlacesOK'
  BY <1>1, <1>2, <1>3 DEF PlacesOK, Undecided
<1>6. EffectsOK'
  BY <1>1 DEF EffectsOK
<1>. QED BY <1>4, <1>5, <1>6

\* The handler ends, and then the message is acknowledged.
LEMMA CommandDone == ASSUME CommandInv, HandleCommand \/ Acknowledge PROVE CommandInv'
<1>. USE DEF CommandInv
<1>. DEFINE h == Head(atWork).id
<1>0. atWork # <<>>
  BY DEF HandleCommand, Acknowledge
<1>1. /\ h \in Command /\ Ids(atWork) = {h} /\ h \notin Ids(pending) /\ h <= issued
  BY <1>0, AtWorkFacts
<1>2. /\ UNCHANGED <<pending, returned, issued>>
      /\ \/ /\ settled[h] = "none" /\ effects' = [effects EXCEPT ![h] = @ + 1] /\ atWork' = atWork
            /\ settled' = [settled EXCEPT ![h] = "done"]
         \/ /\ settled[h] = "done" /\ effects' = effects /\ atWork' = <<>>
            /\ settled' = [settled EXCEPT ![h] = "handled"]
  BY DEF HandleCommand, Acknowledge, Settle
<1>. HIDE DEF h
<1>3. /\ settled' \in [Command -> Fate] /\ \A i \in Command \ {h} : settled'[i] = settled[i]
      /\ effects' \in [Command -> Nat] /\ \A i \in Command \ {h} : effects'[i] = effects[i]
  <2>1. settled \in [Command -> Fate] /\ effects \in [Command -> Nat] /\ effects[h] + 1 \in Nat
    BY <1>1 DEF CommandTypeOK
  <2>2. settled' \in [Command -> Fate] /\ \A i \in Command \ {h} : settled'[i] = settled[i]
    BY <1>1, <1>2, <2>1 DEF Fate
  <2>3. effects' \in [Command -> Nat] /\ \A i \in Command \ {h} : effects'[i] = effects[i]
    BY <1>1, <1>2, <2>1
  <2>. QED BY <2>2, <2>3
<1>4. \/ /\ settled[h] = "none" /\ effects'[h] = effects[h] + 1 /\ atWork' = atWork
         /\ settled'[h] = "done"
      \/ settled[h] = "done" /\ effects'[h] = effects[h] /\ atWork' = <<>> /\ settled'[h] = "handled"
  BY <1>1, <1>2 DEF CommandTypeOK
<1>5. CommandTypeOK'
  BY <1>2, <1>3, <1>4 DEF CommandTypeOK
<1>6. PlacesOK'
  BY <1>1, <1>2, <1>3, <1>4, IdsOfOne DEF PlacesOK, Undecided
<1>7. EffectsOK'
  <2>. SUFFICES ASSUME NEW i \in Command
                PROVE  /\ i > issued => settled'[i] = "none" /\ effects'[i] = 0
                       /\ settled'[i] \in {"done", "handled"} => effects'[i] >= 1
                       /\ i \notin returned => effects'[i] <= (IF settled'[i] = "none" THEN 0 ELSE 1)
    BY <1>2 DEF EffectsOK
  <2>1. effects[i] \in Nat /\ effects[h] \in Nat /\ issued \in Nat /\ h \in Nat
    BY <1>1, CommandAssumption DEF CommandTypeOK, Command
  <2>2. CASE i = h
    BY <1>1, <1>4, <2>1, <2>2 DEF EffectsOK
  <2>3. CASE i # h
    BY <1>3, <2>3 DEF EffectsOK
  <2>. QED BY <2>2, <2>3
<1>. QED BY <1>5, <1>6, <1>7

\* The process restarts.  The broker puts the message at work back in front of a
\* durable queue; with any other queue everything in it is lost.
LEMMA CommandBack == ASSUME CommandInv, RestartConsumer PROVE CommandInv'
<1>. USE DEF CommandInv
<1>1. /\ atWork' = <<>> /\ UNCHANGED <<effects, issued>>
      /\ pending \in Seq(Msg) /\ settled \in [Command -> Fate] /\ issued \in Nat
  BY DEF RestartConsumer, CommandTypeOK
<1>2. {m.id : m \in ToSet(pending)} = Ids(pending)
  BY <1>1, IdsOfSet
<1>3. {m.id : m \in ToSet(atWork)} = Ids(atWork)
  BY AtWorkIds
<1>4. Ids(atWork') = {} /\ Ids(<<>>) = {} /\ Distinct(<<>>)
  BY <1>1, IdsOfOne
<1>5. CASE me.durable
  <2>1. /\ pending' = atWork \o pending /\ returned' = returned \cup Ids(atWork)
        /\ settled' = [i \in Command |-> IF i \in Ids(atWork) THEN "none" ELSE settled[i]]
    BY <1>1, <1>3, <1>5 DEF RestartConsumer, Requeued
  <2>2. /\ pending' \in Seq(Msg) /\ Distinct(pending')
        /\ Ids(pending') = Ids(pending) \cup Ids(atWork)
    <3>1. CASE atWork = <<>>
      <4>1. pending' = pending
        BY <1>1, <2>1, <3>1
      <4>. QED BY <1>1, <1>4, <3>1, <4>1 DEF PlacesOK
    <3>2. CASE atWork # <<>>
      <4>1. /\ Head(atWork) \in Msg /\ pending' = <<Head(atWork)>> \o pending
            /\ Ids(atWork) = {Head(atWork).id} /\ Head(atWork).id \notin Ids(pending)
        BY <2>1, <3>2, AtWorkFacts
      <4>. QED BY <1>1, <4>1, IdsOfReturn DEF PlacesOK
    <3>. QED BY <3>1, <3>2
  <2>3. /\ settled' \in [Command -> Fate]
        /\ \A i \in Command : settled'[i] = IF i \in Ids(atWork) THEN "none" ELSE settled[i]
    BY <1>1, <2>1 DEF Fate
  <2>4. CommandTypeOK'
    BY <1>1, <2>2, <2>3 DEF CommandTypeOK
  <2>5. PlacesOK'
    BY <1>1, <1>4, <2>2, <2>3 DEF PlacesOK, Undecided
  <2>6. EffectsOK'
    BY <1>1, <2>1, <2>3 DEF EffectsOK, PlacesOK
  <2>. QED BY <2>4, <2>5, <2>6
<1>6. CASE ~me.durable
  <2>. DEFINE L == Ids(pending) \cup Ids(atWork)
  <2>1. /\ pending' = <<>> /\ returned' = returned
        /\ settled' = [i \in Command |-> IF i \in L THEN "lost" ELSE settled[i]]
    BY <1>1, <1>2, <1>3, <1>6 DEF RestartConsumer, LostWithQueue, Gone
  <2>2. \A i \in Command : i \in L <=> i <= issued /\ Undecided(i)
    BY DEF PlacesOK
  <2>. HIDE DEF L
  <2>3. /\ settled' \in [Command -> Fate]
        /\ \A i \in Command : settled'[i] = IF i \in L THEN "lost" ELSE settled[i]
    BY <1>1, <2>1 DEF Fate
  <2>4. CommandTypeOK'
    BY <1>1, <2>1, <2>3 DEF CommandTypeOK
  <2>5. PlacesOK'
    BY <1>1, <1>4, <2>1, <2>2, <2>3 DEF PlacesOK, Undecided
  <2>6. EffectsOK'
    <3>1. \A i \in Command : effects[i] \in Nat /\ i \in Nat
      BY DEF CommandTypeOK, Command
    <3>. QED BY <1>1, <2>1, <2>2, <2>3, <3>1 DEF EffectsOK
  <2>. QED BY <2>4, <2>5, <2>6
<1>. QED BY <1>5, <1>6

\* Every step of a consumer, of its senders and of the broker.
LEMMA CommandSteps == ASSUME CommandInv, [CommandNext]_commandVars PROVE CommandInv'
<1>1. CASE DeclareQueue \/ ConsumerReturns \/ UNCHANGED commandVars
  <2>1. UNCHANGED <<pending, atWork, settled, effects, returned, issued>>
    BY <1>1 DEF DeclareQueue, ConsumerReturns, commandVars
  <2>. QED BY <2>1 DEF CommandInv, CommandTypeOK, PlacesOK, EffectsOK, Undecided
<1>. QED BY <1>1, CommandSent, CommandTaken, CommandDone, FailedWork, CommandBack DEF CommandNext

\* The places of a command, counted.
LEMMA CommandPlaces ==
  ASSUME CommandInv, NEW i \in 1..issued
  PROVE  LET places == {k \in DOMAIN pending : pending[k].id = i}
                         \cup {k \in {0} : \E m \in ToSet(atWork) : m.id = i}
         IN Cardinality(places) = IF settled[i] \in {"none", "done"} THEN 1 ELSE 0
<1>. USE DEF CommandInv
<1>. DEFINE queued == {k \in DOMAIN pending : pending[k].id = i}
            atwork == {k \in {0} : \E m \in ToSet(atWork) : m.id = i}
<1>1. i \in Command /\ i <= issued
  BY CommandAssumption DEF CommandTypeOK, Command
<1>2. pending \in Seq(Msg) /\ DOMAIN pending = 1..Len(pending) /\ 0 \notin 1..Len(pending)
  BY DEF CommandTypeOK
<1>3. i \in Ids(pending) <=> queued # {}
  BY <1>2 DEF Ids
<1>4. \A j, k \in queued : j = k
  BY <1>2 DEF PlacesOK, Distinct
<1>5. i \in Ids(atWork) => atwork = {0}
  BY AtWorkIds
<1>6. i \notin Ids(atWork) => atwork = {}
  BY AtWorkIds
<1>7. i \in Ids(pending) \cup Ids(atWork) <=> settled[i] \in {"none", "done"}
  BY <1>1 DEF PlacesOK, Undecided
<1>8. i \in Ids(pending) => i \notin Ids(atWork)
  BY DEF PlacesOK
<1>. HIDE DEF queued, atwork
<1>9. CASE settled[i] \in {"none", "done"}
  <2>1. PICK k : queued \cup atwork = {k}
    <3>1. CASE i \in Ids(pending)
      BY <1>3, <1>4, <1>6, <1>8, <3>1
    <3>2. CASE i \notin Ids(pending)
      BY <1>3, <1>5, <1>7, <1>9, <3>2
    <3>. QED BY <3>1, <3>2
  <2>2. Cardinality({k}) = 1
    BY FS_Singleton
  <2>. QED BY <1>9, <2>1, <2>2 DEF queued, atwork
<1>10. CASE settled[i] \notin {"none", "done"}
  <2>1. queued \cup atwork = {}
    BY <1>3, <1>6, <1>7, <1>10
  <2>. QED BY <1>10, <2>1, FS_EmptySet DEF queued, atwork
<1>. QED BY <1>9, <1>10

\* At the start nothing was sent.
LEMMA CommandStart == CommandInit => CommandInv
BY CommandAssumption, IdsOfOne
   DEF CommandInit, CommandInv, CommandTypeOK, PlacesOK, EffectsOK, Undecided, Command, Fate

\* For every consumer, any number of commands and any number of failures: until
\* something is known to have become of a command it is in the queue or at work,
\* once, and its handler runs to its end twice only if a restart brought the
\* message back (msg.process, supervise).
THEOREM NoCommandVanishes == CommandSpec => []CommandsAccounted
<1>1. ASSUME CommandInv PROVE CommandsAccounted
  <2>. SUFFICES ASSUME NEW i \in 1..issued
                PROVE  /\ settled[i] = "handled" => effects[i] >= 1
                       /\ effects[i] >= 2 => i \in returned
    BY <1>1, CommandPlaces DEF CommandsAccounted
  <2>1. i \in Command /\ effects[i] \in Nat
    BY <1>1, CommandAssumption DEF CommandInv, CommandTypeOK, Command
  <2>. QED BY <1>1, <2>1 DEF CommandInv, EffectsOK
<1>. QED BY CommandStart, CommandSteps, <1>1, PTL DEF CommandSpec

-----------------------------------------------------------------------------
(***************************************************************************)
(* BatchRunner.                                                            *)
(***************************************************************************)
Setting == {BatchConfigs[i] : i \in DOMAIN BatchConfigs} \cup {"orig", "absent", "default", "off"}
EnvFile == [had : Setting, lacked : Setting, inject : Setting]
Row == [key : RunKeys, batch : Nat, under : EnvFile, restarted : BOOLEAN]
BatchStatus == {"none", "RUNNING", "COMPLETED", "INTERRUPTED"}
Manifest == [batch : Nat, status : BatchStatus,
             runs : [RunKeys -> {"none", "COMPLETED", "FAILED"}]]

BatchTypeOK ==
  /\ step \in {"down", "config", "applying", "loop", "polling", "export"}
  /\ manifest \in Manifest /\ completed \subseteq RunKeys
  /\ config \in Nat \ {0} /\ batches \in Nat
  /\ env \in EnvFile /\ original \in EnvFile /\ running \in [env : EnvFile, ok : BOOLEAN]
  /\ rows \in Seq(Row)

\* The manifest belongs to the last fresh start, and completed_keys is its copy.
ManifestOK ==
  /\ manifest.batch <= batches
  /\ manifest.batch = 0 => manifest = NoManifest
  /\ step # "down" => manifest.batch >= 1 /\ completed = CompletedRunKeys(manifest)

\* A row of the manifest's batch is a run the manifest has as completed.
RowOK(r) ==
  /\ r.batch >= 1 /\ r.batch <= batches
  /\ r.batch = manifest.batch => manifest.runs[r.key] = "COMPLETED"
  /\ r.restarted => r.under = ConfigEnv(r.key.config)

RowsOK ==
  /\ \A i \in 1..Len(rows) : RowOK(rows[i])
  /\ \A i, j \in 1..Len(rows) : rows[i].key = rows[j].key /\ rows[i].batch = rows[j].batch => i = j

\* The run at work is not completed while it is polled, and has no row yet when
\* it is exported.
KeyOK ==
  /\ step \in {"polling", "export"} =>
       key \in RunKeys /\ key.config = BatchConfigs[config]
  /\ step = "polling" => key \notin completed
  /\ step = "export" => /\ key \in completed
                        /\ \A i \in 1..Len(rows) :
                             ~(rows[i].key = key /\ rows[i].batch = manifest.batch)

\* Between apply_config and the restore the services run with the configuration
\* at work, unless a restart failed, and the runner holds the user's settings; what
\* it writes back is them, but for failure injection.
Back == {UsersEnv, [had |-> "orig", lacked |-> "default", inject |-> "off"]}

EnvOK ==
  /\ step \in {"applying", "loop", "polling", "export"} =>
       /\ running.ok => running.env = ConfigEnv(BatchConfigs[config])
       /\ ~lost => [original EXCEPT !.inject = "off"] \in Back
  /\ step \in {"config", "down"} /\ ~lost => env \in Back

BatchInv == BatchTypeOK /\ ManifestOK /\ RowsOK /\ KeyOK /\ EnvOK

\* The manifest before the first batch.
LEMMA EmptyManifest ==
  NoManifest \in Manifest /\ NoManifest.batch = 0 /\ \A k \in RunKeys : NoManifest.runs[k] = "none"
BY DEF NoManifest, Manifest, BatchStatus

\* A new status leaves the records of a manifest alone.
LEMMA StatusOnly ==
  ASSUME NEW m \in Manifest, NEW s \in BatchStatus
  PROVE  /\ [m EXCEPT !.status = s] \in Manifest
         /\ [m EXCEPT !.status = s].batch = m.batch /\ [m EXCEPT !.status = s].runs = m.runs
BY DEF Manifest

\* What the invariant says of one row.
LEMMA RowFacts ==
  ASSUME BatchInv, NEW i \in 1..Len(rows)
  PROVE  rows[i] \in Row /\ rows[i].batch \in Nat /\ rows[i].key \in RunKeys /\ RowOK(rows[i])
<1>1. rows[i] \in Row
  BY DEF BatchInv, BatchTypeOK
<1>. QED BY <1>1 DEF BatchInv, RowsOK, Row

\* At the start there is no batch and the environment is the user's.
LEMMA BatchStart == ASSUME BatchInit PROVE BatchInv
<1>. USE DEF BatchInit
<1>1. BatchTypeOK
  <2>1. UsersEnv \in EnvFile /\ running \in [env : EnvFile, ok : BOOLEAN] /\ rows \in Seq(Row)
    BY DEF EnvFile, Setting, UsersEnv
  <2>. QED BY <2>1, EmptyManifest DEF BatchTypeOK
<1>2. ManifestOK
  BY EmptyManifest DEF ManifestOK
<1>3. RowsOK /\ KeyOK /\ EnvOK
  BY DEF RowsOK, KeyOK, EnvOK, Back
<1>. QED BY <1>1, <1>2, <1>3 DEF BatchInv

\* A batch starts: a fresh manifest has a number no row has, a resumed one keeps
\* its records.
LEMMA BatchStarts == ASSUME BatchInv, NEW b \in BOOLEAN, StartBatch(b) PROVE BatchInv'
<1>. USE DEF BatchInv
<1>1. /\ step = "down" /\ step' = "config" /\ config' = 1 /\ batches' = batches + 1
      /\ completed' = CompletedRunKeys(manifest') /\ batches \in Nat
      /\ UNCHANGED <<key, env, original, running, rows, lost>>
  BY DEF StartBatch, BatchTypeOK
<1>2. \/ manifest # NoManifest /\ manifest' = [manifest EXCEPT !.status = "RUNNING"]
      \/ manifest' = [NoManifest EXCEPT !.batch = batches + 1, !.status = "RUNNING"]
  BY DEF StartBatch
<1>3. /\ manifest' \in Manifest
      /\ \/ manifest # NoManifest /\ manifest'.batch = manifest.batch /\ manifest'.runs = manifest.runs
         \/ manifest'.batch = batches + 1
  <2>1. CASE manifest # NoManifest /\ manifest' = [manifest EXCEPT !.status = "RUNNING"]
    <3>1. "RUNNING" \in BatchStatus /\ manifest \in Manifest
      BY DEF BatchStatus, BatchTypeOK
    <3>. QED BY <2>1, <3>1, StatusOnly
  <2>2. CASE manifest' = [NoManifest EXCEPT !.batch = batches + 1, !.status = "RUNNING"]
    <3>1. manifest' = [batch |-> batches + 1, status |-> "RUNNING", runs |-> NoManifest.runs]
      BY <2>2 DEF NoManifest
    <3>2. NoManifest.runs \in [RunKeys -> {"none", "COMPLETED", "FAILED"}]
      BY EmptyManifest DEF Manifest
    <3>. QED BY <1>1, <3>1, <3>2 DEF Manifest, BatchStatus
  <2>. QED BY <1>2, <2>1, <2>2
<1>4. BatchTypeOK'
  BY <1>1, <1>3 DEF BatchTypeOK, CompletedRunKeys
<1>5. manifest.batch \in Nat /\ manifest'.batch \in Nat
  BY <1>3 DEF BatchTypeOK, Manifest
<1>6. ManifestOK'
  BY <1>1, <1>3, <1>5 DEF ManifestOK, CompletedRunKeys
<1>7. RowsOK'
  <2>1. ASSUME NEW i \in 1..Len(rows) PROVE RowOK(rows[i])'
    BY <1>1, <1>3, <1>5, RowFacts DEF RowOK
  <2>. QED BY <1>1, <2>1 DEF RowsOK
<1>8. KeyOK' /\ EnvOK'
  BY <1>1 DEF KeyOK, EnvOK
<1>. QED BY <1>4, <1>6, <1>7, <1>8

\* Steps that write no row and no record of a run.
LEMMA SameRecords ==
  ASSUME BatchInv, rows' = rows, batches' = batches,
         \/ manifest'.batch = manifest.batch /\ manifest'.runs = manifest.runs
         \/ manifest' = NoManifest
  PROVE  RowsOK'
<1>1. ASSUME NEW i \in 1..Len(rows) PROVE RowOK(rows[i])'
  BY RowFacts, EmptyManifest DEF RowOK
<1>. QED BY <1>1 DEF BatchInv, RowsOK

\* Only the status of the manifest changes, or nothing of it.
LEMMA SameManifest ==
  ASSUME BatchInv, step # "down", UNCHANGED <<completed, batches>>,
         \/ manifest' = manifest
         \/ \E s \in BatchStatus : manifest' = [manifest EXCEPT !.status = s]
  PROVE  /\ manifest' \in Manifest /\ ManifestOK'
         /\ manifest'.batch = manifest.batch /\ manifest'.runs = manifest.runs
<1>1. /\ manifest' \in Manifest
      /\ manifest'.batch = manifest.batch /\ manifest'.runs = manifest.runs
  BY StatusOnly, ZenonT(40) DEF BatchInv, BatchTypeOK
<1>2. manifest.batch >= 1 /\ completed = CompletedRunKeys(manifest)
  BY DEF BatchInv, ManifestOK
<1>. QED BY <1>1, <1>2 DEF BatchInv, ManifestOK, CompletedRunKeys

\* A restart of the services, whether it works or not.
LEMMA RestartFacts ==
  ASSUME BatchInv, NEW b \in BOOLEAN, NEW e \in EnvFile
  PROVE  /\ Restarted(b, e) \in [env : EnvFile, ok : BOOLEAN]
         /\ Restarted(b, e).ok => Restarted(b, e).env = e
BY DEF Restarted, BatchInv, BatchTypeOK

\* What apply_config remembers: the user's settings, if they were in the file.
LEMMA OriginalFacts ==
  ASSUME BatchInv, step = "config"
  PROVE  OriginalEnv \in EnvFile /\ (~lost => [OriginalEnv EXCEPT !.inject = "off"] \in Back)
<1>1. /\ env \in EnvFile
      /\ OriginalEnv = [had |-> env.had, inject |-> env.inject,
                         lacked |-> IF env.lacked = "absent" THEN "default" ELSE env.lacked]
  BY DEF BatchInv, BatchTypeOK, OriginalEnv, EnvFile
<1>2. OriginalEnv \in EnvFile
  BY <1>1 DEF EnvFile, Setting
<1>3. ASSUME ~lost PROVE [OriginalEnv EXCEPT !.inject = "off"] \in Back
  <2>1. env \in Back
    BY <1>3 DEF BatchInv, EnvOK
  <2>. QED BY <1>1, <2>1 DEF Back, UsersEnv
<1>. QED BY <1>2, <1>3

\* A configuration is skipped, applied or left for the first run.
LEMMA BatchConfig ==
  ASSUME BatchInv, SkipConfig \/ (\E b \in BOOLEAN : ApplyConfig(b)) \/ Applied
  PROVE  BatchInv'
<1>. USE DEF BatchInv
<1>1. /\ UNCHANGED <<manifest, completed, rows, batches, lost>> /\ step # "down"
      /\ step' \in {"config", "applying", "loop"}
  BY DEF SkipConfig, ApplyConfig, Applied
<1>2. ManifestOK' /\ RowsOK' /\ KeyOK'
  BY <1>1, SameManifest, SameRecords DEF KeyOK
<1>3. CASE SkipConfig
  BY <1>1, <1>2, <1>3 DEF SkipConfig, BatchTypeOK, EnvOK
<1>4. CASE Applied
  BY <1>1, <1>2, <1>4 DEF Applied, BatchTypeOK, EnvOK
<1>5. ASSUME NEW b \in BOOLEAN, ApplyConfig(b) PROVE BatchInv'
  <2>1. ConfigEnv(BatchConfigs[config]) \in EnvFile
    <3>1. BatchConfigs[config] \in Setting
      BY <1>5, BatchAssumption DEF ApplyConfig, BatchTypeOK, Setting
    <3>. QED BY <3>1 DEF ConfigEnv, EnvFile
  <2>2. /\ original' = OriginalEnv /\ env' = ConfigEnv(BatchConfigs[config])
        /\ running' = Restarted(b, env')
        /\ step = "config" /\ step' = "applying" /\ config' = config
    BY <1>5 DEF ApplyConfig
  <2>6. OriginalEnv \in EnvFile /\ (~lost => [OriginalEnv EXCEPT !.inject = "off"] \in Back)
    BY <2>2, OriginalFacts
  <2>3. running' \in [env : EnvFile, ok : BOOLEAN] /\ (running'.ok => running'.env = env')
    BY <2>1, <2>2, RestartFacts
  <2>4. BatchTypeOK'
    BY <1>1, <2>1, <2>2, <2>3, <2>6 DEF BatchTypeOK
  <2>5. EnvOK'
    BY <1>1, <2>2, <2>3, <2>6 DEF EnvOK
  <2>. QED BY <1>2, <2>4, <2>5
<1>. QED BY <1>3, <1>4, <1>5

\* A run is launched: it is one that is not completed.
LEMMA BatchLaunch == ASSUME BatchInv, NEW k \in RunKeys, LaunchRun(k) PROVE BatchInv'
<1>. USE DEF BatchInv
<1>1. /\ step = "loop" /\ step' = "polling" /\ key' = k /\ k \in Pending
      /\ UNCHANGED <<manifest, completed, config, env, original, running, rows, batches, lost>>
  BY DEF LaunchRun, Ahead
<1>2. ManifestOK' /\ RowsOK'
  BY <1>1, SameManifest, SameRecords
<1>3. BatchTypeOK'
  BY <1>1 DEF BatchTypeOK
<1>4. KeyOK' /\ EnvOK'
  BY <1>1 DEF KeyOK, EnvOK, Pending
<1>. QED BY <1>2, <1>3, <1>4

\* A run ends and is recorded.  Its row is still to be written.
LEMMA BatchRecord ==
  ASSUME BatchInv, NEW s \in {"COMPLETED", "FAILED"}, RecordRun(s)
  PROVE  BatchInv'
<1>. USE DEF BatchInv
<1>1. /\ step = "polling" /\ manifest' = [manifest EXCEPT !.runs[key] = s]
      /\ completed' = IF s = "COMPLETED" THEN completed \cup {key} ELSE completed
      /\ step' = IF s = "COMPLETED" THEN "export" ELSE "loop"
      /\ UNCHANGED <<config, key, env, original, running, rows, batches, lost>>
  BY DEF RecordRun, UpsertManifestRun
<1>2. /\ key \in RunKeys /\ key.config = BatchConfigs[config] /\ manifest \in Manifest
      /\ key \notin completed /\ completed = CompletedRunKeys(manifest) /\ manifest.batch >= 1
  BY <1>1 DEF KeyOK, BatchTypeOK, ManifestOK
<1>3. manifest.runs[key] # "COMPLETED"
  BY <1>2 DEF CompletedRunKeys
<1>4. /\ manifest' \in Manifest /\ manifest'.batch = manifest.batch
      /\ manifest'.runs = [manifest.runs EXCEPT ![key] = s]
  BY <1>1, <1>2 DEF Manifest
<1>5. manifest'.runs[key] = s /\ \A k \in RunKeys \ {key} : manifest'.runs[k] = manifest.runs[k]
  BY <1>2, <1>4 DEF Manifest
<1>6. \A i \in 1..Len(rows) : ~(rows[i].key = key /\ rows[i].batch = manifest.batch)
  BY <1>3, RowFacts DEF RowOK
<1>7. BatchTypeOK'
  BY <1>1, <1>2, <1>4 DEF BatchTypeOK
<1>8. ManifestOK'
  <2>1. completed' = CompletedRunKeys(manifest')
    BY <1>1, <1>2, <1>3, <1>5 DEF CompletedRunKeys
  <2>. QED BY <1>1, <1>2, <1>4, <2>1 DEF ManifestOK, Manifest
<1>9. RowsOK'
  <2>1. ASSUME NEW i \in 1..Len(rows) PROVE RowOK(rows[i])'
    BY <1>1, <1>4, <1>5, <1>6, RowFacts DEF RowOK
  <2>. QED BY <1>1, <2>1 DEF RowsOK
<1>10. KeyOK' /\ EnvOK'
  BY <1>1, <1>2, <1>4, <1>6 DEF KeyOK, EnvOK
<1>. QED BY <1>7, <1>8, <1>9, <1>10

\* The row of a completed run is written, or collecting it failed.
LEMMA BatchExport == ASSUME BatchInv, NEW b \in BOOLEAN, ExportRow(b) PROVE BatchInv'
<1>. USE DEF BatchInv
<1>. DEFINE r == [key |-> key, batch |-> manifest.batch,
                  under |-> running.env, restarted |-> running.ok]
<1>1. /\ step = "export" /\ step' = "loop" /\ rows' = (IF ~b THEN rows ELSE Append(rows, r))
      /\ UNCHANGED <<manifest, completed, config, key, env, original, running, batches, lost>>
  BY DEF ExportRow
<1>2. ManifestOK' /\ KeyOK' /\ EnvOK'
  BY <1>1, SameManifest DEF KeyOK, EnvOK
<1>3. /\ key \in RunKeys /\ manifest \in Manifest /\ manifest.batch \in Nat
      /\ manifest.batch >= 1 /\ manifest.batch <= batches /\ manifest.runs[key] = "COMPLETED"
  BY <1>1 DEF KeyOK, BatchTypeOK, ManifestOK, CompletedRunKeys, Manifest
<1>4. r \in Row /\ r.key = key /\ r.batch = manifest.batch /\ r.under = running.env
      /\ (r.restarted <=> running.ok)
  BY <1>3 DEF Row, BatchTypeOK
<1>. HIDE DEF r
<1>5. RowOK(r)
  BY <1>1, <1>3, <1>4 DEF RowOK, KeyOK, EnvOK
<1>6. \A i \in 1..Len(rows) : ~(rows[i].key = key /\ rows[i].batch = manifest.batch)
  BY <1>1 DEF KeyOK
<1>7. rows' \in Seq(Row) /\ RowsOK'
  <2>1. CASE ~b
    BY <1>1, <2>1, SameRecords DEF BatchTypeOK
  <2>2. CASE b
    <3>1. rows \in Seq(Row) /\ Len(rows) \in Nat
      BY DEF BatchTypeOK
    <3>2. /\ rows' \in Seq(Row) /\ Len(rows') = Len(rows) + 1 /\ rows'[Len(rows) + 1] = r
          /\ \A i \in 1..Len(rows) : rows'[i] = rows[i]
      BY <1>1, <1>4, <2>2, <3>1
    <3>3. \A i \in 1..Len(rows) : RowOK(rows[i])
      BY RowFacts
    <3>4. \A i \in 1..Len(rows') : RowOK(rows'[i])
      BY <1>5, <3>1, <3>2, <3>3
    <3>5. (\A i \in 1..Len(rows) : RowOK(rows[i]))'
      BY <1>1, <3>4 DEF RowOK
    <3>6. \A i, j \in 1..Len(rows') :
            rows'[i].key = rows'[j].key /\ rows'[i].batch = rows'[j].batch => i = j
      BY <1>4, <1>6, <3>1, <3>2, SMTT(30) DEF RowsOK
    <3>. QED BY <3>2, <3>5, <3>6 DEF RowsOK
  <2>. QED BY <2>1, <2>2
<1>8. BatchTypeOK'
  BY <1>1, <1>7 DEF BatchTypeOK
<1>. QED BY <1>2, <1>7, <1>8

\* The end of a configuration, of the batch and of the process.
LEMMA BatchEnds ==
  ASSUME BatchInv,
         \/ EndBatch \/ InterruptApply
         \/ \E b \in BOOLEAN : EndConfig(b) \/ Interrupt(b) \/ Kill(b)
  PROVE  BatchInv'
<1>. USE DEF BatchInv
<1>0. \A s \in {"COMPLETED", "INTERRUPTED"} : s \in BatchStatus
  BY DEF BatchStatus
<1>1. CASE EndBatch \/ InterruptApply
  <2>1. /\ step # "down" /\ step' = "down"
        /\ \E s \in BatchStatus : manifest' = [manifest EXCEPT !.status = s]
        /\ UNCHANGED <<completed, config, env, original, running, rows, batches>>
        /\ ~lost' => step = "config" /\ ~lost
    BY <1>0, <1>1 DEF EndBatch, InterruptApply
  <2>2. manifest' \in Manifest /\ ManifestOK' /\ RowsOK'
    BY <2>1, SameManifest, SameRecords
  <2>3. BatchTypeOK'
    BY <2>1, <2>2 DEF BatchTypeOK
  <2>. QED BY <2>1, <2>2, <2>3 DEF KeyOK, EnvOK
<1>2. ASSUME NEW b \in BOOLEAN, EndConfig(b) \/ Interrupt(b) PROVE BatchInv'
  <2>1. /\ step \in {"loop", "polling", "export"} /\ step' \in {"config", "down"}
        /\ env' = [original EXCEPT !.inject = "off"] /\ running' = Restarted(b, env')
        /\ config' = config + 1
        /\ UNCHANGED <<completed, original, rows, batches, lost>>
        /\ \/ manifest' = manifest
           \/ \E s \in BatchStatus : manifest' = [manifest EXCEPT !.status = s]
    BY <1>0, <1>2 DEF EndConfig, Interrupt, RestoreConfig
  <2>2. manifest' \in Manifest /\ ManifestOK' /\ RowsOK'
    BY <2>1, SameManifest, SameRecords
  <2>5. env' \in EnvFile
    BY <2>1 DEF BatchTypeOK, EnvFile, Setting
  <2>3. running' \in [env : EnvFile, ok : BOOLEAN]
    BY <2>1, <2>5, RestartFacts
  <2>4. BatchTypeOK'
    BY <2>1, <2>2, <2>3, <2>5 DEF BatchTypeOK
  <2>. QED BY <2>1, <2>2, <2>4 DEF KeyOK, EnvOK
<1>3. ASSUME NEW b \in BOOLEAN, Kill(b) PROVE BatchInv'
  <2>1. /\ step # "down" /\ step' = "down"
        /\ manifest' = manifest \/ manifest' = NoManifest
        /\ UNCHANGED <<completed, config, env, original, running, rows, batches>>
        /\ ~lost' => step = "config" /\ ~lost
    BY <1>3 DEF Kill
  <2>2. manifest' \in Manifest /\ ManifestOK' /\ RowsOK'
    BY <2>1, SameManifest, SameRecords, EmptyManifest DEF ManifestOK, BatchTypeOK
  <2>3. BatchTypeOK'
    BY <2>1, <2>2 DEF BatchTypeOK
  <2>. QED BY <2>1, <2>2, <2>3 DEF KeyOK, EnvOK
<1>. QED BY <1>1, <1>2, <1>3

\* Every step of the runner, and of those who stop it.
LEMMA BatchSteps == ASSUME BatchInv, [BatchNext]_batchVars PROVE BatchInv'
<1>1. CASE UNCHANGED batchVars
  BY <1>1 DEF batchVars, BatchInv, BatchTypeOK, ManifestOK, RowsOK, RowOK, KeyOK, EnvOK, CompletedRunKeys
<1>. QED BY <1>1, BatchStarts, BatchConfig, BatchLaunch, BatchRecord, BatchExport, BatchEnds
         DEF BatchNext

\* However often a batch is killed, interrupted and resumed, for any configurations,
\* clients and repetitions: run_results.csv holds a run of a batch at most once, a
\* row was measured under its own configuration unless the restart failed, and when
\* the runner is down, unless it was killed or stopped inside apply_config, the
\* user's settings are back, those that .env lacked are absent or at their defaults,
\* and failure injection is the user's or off (run_batch, restore_config).
THEOREM BatchIsSound == BatchSpec => []BatchSound
<1>1. ASSUME BatchInv PROVE BatchSound
  <2>1. DOMAIN rows = 1..Len(rows)
    BY <1>1 DEF BatchInv, BatchTypeOK
  <2>. QED BY <1>1, <2>1 DEF BatchInv, RowsOK, RowOK, EnvOK, Back, BatchSound
<1>. QED BY BatchStart, BatchSteps, <1>1, PTL DEF BatchSpec

-----------------------------------------------------------------------------
(***************************************************************************)
(* Registration.  The queues are asked only what is in them.               *)
(***************************************************************************)
Has(s, v) == \E i \in 1..Len(s) : s[i] = v

\* A value joins the end of a queue.
LEMMA HasAppend ==
  ASSUME NEW S, NEW s \in Seq(S), NEW v \in S
  PROVE  Append(s, v) \in Seq(S) /\ Has(Append(s, v), v) /\ \A w : Has(s, w) => Has(Append(s, v), w)
<1>. DEFINE a == Append(s, v)
<1>1. /\ a \in Seq(S) /\ Len(a) = Len(s) + 1 /\ Len(s) \in Nat
      /\ a[Len(s) + 1] = v /\ \A k \in 1..Len(s) : a[k] = s[k]
  OBVIOUS
<1>. HIDE DEF a
<1>2. Has(a, v) /\ \A w : Has(s, w) => Has(a, w)
  BY <1>1 DEF Has
<1>. QED BY <1>1, <1>2 DEF a

\* The head of a queue leaves it.
LEMMA HasTail ==
  ASSUME NEW S, NEW s \in Seq(S), s # <<>>
  PROVE  Head(s) \in S /\ Tail(s) \in Seq(S) /\ \A w : Has(s, w) => w = Head(s) \/ Has(Tail(s), w)
<1>. DEFINE a == Tail(s)
<1>1. /\ a \in Seq(S) /\ Head(s) \in S /\ Head(s) = s[1]
      /\ Len(s) \in Nat /\ Len(s) > 0 /\ Len(a) = Len(s) - 1 /\ \A k \in 1..Len(a) : a[k] = s[k + 1]
  OBVIOUS
<1>. HIDE DEF a
<1>2. ASSUME NEW w, Has(s, w) PROVE w = Head(s) \/ Has(a, w)
  <2>1. PICK k \in 1..Len(s) : s[k] = w
    BY <1>2 DEF Has
  <2>2. k = 1 \/ (k - 1 \in 1..Len(a) /\ a[k - 1] = w)
    BY <1>1, <2>1
  <2>. QED BY <1>1, <2>1, <2>2 DEF Has
<1>. QED BY <1>1, <1>2 DEF a

\* A value comes back to the front of a queue.
LEMMA HasReturn ==
  ASSUME NEW S, NEW s \in Seq(S), NEW v \in S
  PROVE  <<v>> \o s \in Seq(S) /\ Has(<<v>> \o s, v) /\ \A w : Has(s, w) => Has(<<v>> \o s, w)
<1>. DEFINE a == <<v>> \o s
<1>1. /\ a \in Seq(S) /\ Len(a) = Len(s) + 1 /\ Len(s) \in Nat
      /\ a[1] = v /\ \A k \in 1..Len(s) : k + 1 \in 1..Len(a) /\ a[k + 1] = s[k]
  OBVIOUS
<1>. HIDE DEF a
<1>2. Has(a, v) /\ \A w : Has(s, w) => Has(a, w)
  BY <1>1 DEF Has
<1>. QED BY <1>1, <1>2 DEF a

(***************************************************************************)
(* The inductive invariant.  A stored definition is on its way - a request *)
(* that wrote it has still to publish, or a command or an event for the    *)
(* pipeline is queued - or the topology consumer declares it, or it is     *)
(* wired.  A command that finds no configuration is dropped, so the        *)
(* configuration must follow the document.                                 *)
(***************************************************************************)
ToConfig  == <<"cfg", "publish">>
ToPublish == <<"publish">>
Todo == {<<"stub", "doc", "cfg", "publish">>, <<"doc", "cfg", "publish">>, ToConfig, ToPublish,
         <<"stub", "publish">>, <<"stub", "raise">>, <<"raise">>}

Request == [pipe : Pipe, graph : Graph, todo : Todo]
RegCommand == [pipe : Pipe, graph : Graph \cup {None}]

RegTypeOK ==
  /\ doc \in [Pipe -> Graph \cup {None, Stub}] /\ cfg \in [Pipe -> Graph \cup {None}]
  /\ DOMAIN exch = Exchange
  /\ cmds \in Seq(RegCommand) /\ evts \in Seq(Pipe)
  /\ call \in [Caller -> Request \cup {NoCall}]

TopoOK ==
  topo # NoEvent =>
    /\ topo \in [pipe : Pipe, graph : Graph \cup {Stub}, left : SUBSET Exchange]
    /\ topo.left # {} => topo.graph \in Graph
    /\ \A x \in topo.left : x \in DOMAIN Wiring[topo.graph]

AtWork(p, todo) == \E c \in Caller : call[c].pipe = p /\ call[c].todo = todo

ConfigFollows ==
  \A p \in Pipe \ spoiled : doc[p] \in Graph => cfg[p] # None \/ AtWork(p, ToConfig)

OnItsWay(p) ==
  \/ AtWork(p, ToConfig) \/ AtWork(p, ToPublish)
  \/ \E m \in RegCommand : m.pipe = p /\ Has(cmds, m)
  \/ Has(evts, p)

Wired(p, X) ==
  \A x \in X : exch[x].by # None /\ (exch[x].by = p => exch[x].type = Wiring[doc[p]][x])

Settled(p) ==
  \/ OnItsWay(p)
  \/ topo.pipe = p /\ topo.graph = doc[p] /\ Wired(p, DOMAIN Wiring[doc[p]] \ topo.left)
  \/ topo.pipe # p /\ Wired(p, DOMAIN Wiring[doc[p]])

AllSettled == \A p \in Pipe \ spoiled : doc[p] \in Graph => Settled(p)

RegInv == RegTypeOK /\ TopoOK /\ ConfigFollows /\ AllSettled

\* The lists of what a request has left to do.
LEMMA TodoSteps ==
  ASSUME NEW t \in Todo, NEW s, Head(t) = s
  PROVE  /\ t # <<>>
         /\ Len(t) # 1 => Tail(t) \in Todo
         /\ s = "doc" => Len(t) # 1 /\ Tail(t) = ToConfig
         /\ s = "cfg" => t = ToConfig /\ Len(t) # 1 /\ Tail(t) = ToPublish
         /\ s = "publish" => t = ToPublish /\ Len(t) = 1
         /\ s \in {"stub", "doc", "raise"} => t # ToConfig /\ t # ToPublish
<1>1. CASE t = <<"stub", "doc", "cfg", "publish">>
  <2>1. Len(t) = 4 /\ Head(t) = "stub" /\ Tail(t) = <<"doc", "cfg", "publish">>
    BY <1>1 DEF ToConfig, ToPublish
  <2>. QED BY <1>1, <2>1 DEF Todo, ToConfig, ToPublish
<1>2. CASE t = <<"doc", "cfg", "publish">>
  <2>1. Len(t) = 3 /\ Head(t) = "doc" /\ Tail(t) = <<"cfg", "publish">>
    BY <1>2 DEF ToConfig, ToPublish
  <2>. QED BY <1>2, <2>1 DEF Todo, ToConfig, ToPublish
<1>3. CASE t = ToConfig
  <2>1. Len(t) = 2 /\ Head(t) = "cfg" /\ Tail(t) = <<"publish">>
    BY <1>3 DEF ToConfig, ToPublish
  <2>. QED BY <1>3, <2>1 DEF Todo, ToConfig, ToPublish
<1>4. CASE t = ToPublish
  <2>1. Len(t) = 1 /\ Head(t) = "publish" /\ Tail(t) = <<>>
    BY <1>4 DEF ToConfig, ToPublish
  <2>. QED BY <1>4, <2>1 DEF Todo, ToConfig, ToPublish
<1>5. CASE t = <<"stub", "publish">>
  <2>1. Len(t) = 2 /\ Head(t) = "stub" /\ Tail(t) = <<"publish">>
    BY <1>5 DEF ToConfig, ToPublish
  <2>. QED BY <1>5, <2>1 DEF Todo, ToConfig, ToPublish
<1>6. CASE t = <<"stub", "raise">>
  <2>1. Len(t) = 2 /\ Head(t) = "stub" /\ Tail(t) = <<"raise">>
    BY <1>6 DEF ToConfig, ToPublish
  <2>. QED BY <1>6, <2>1 DEF Todo, ToConfig, ToPublish
<1>7. CASE t = <<"raise">>
  <2>1. Len(t) = 1 /\ Head(t) = "raise" /\ Tail(t) = <<>>
    BY <1>7 DEF ToConfig, ToPublish
  <2>. QED BY <1>7, <2>1 DEF Todo, ToConfig, ToPublish
<1>. QED BY <1>1, <1>2, <1>3, <1>4, <1>5, <1>6, <1>7 DEF Todo

\* A request does the next thing on its list.
LEMMA DoesFacts ==
  ASSUME RegTypeOK, NEW c \in Caller, NEW s, Does(c, s)
  PROVE  /\ call[c].pipe \in Pipe /\ call[c].graph \in Graph
         /\ call' \in [Caller -> Request \cup {NoCall}]
         /\ \A d \in Caller \ {c} : call'[d] = call[d]
         /\ s = "doc" => call'[c].pipe = call[c].pipe /\ call'[c].todo = ToConfig
         /\ s = "cfg" => /\ call[c].todo = ToConfig
                         /\ call'[c].pipe = call[c].pipe /\ call'[c].todo = ToPublish
         /\ s = "publish" => call[c].todo = ToPublish
         /\ s \in {"stub", "doc", "raise"} => call[c].todo # ToConfig /\ call[c].todo # ToPublish
<1>. DEFINE r == call[c]
            rest == [pipe |-> r.pipe, graph |-> r.graph, todo |-> Tail(r.todo)]
<1>1. /\ r.todo # <<>> /\ Head(r.todo) = s
      /\ call' = [call EXCEPT ![c] = IF Len(r.todo) = 1 THEN NoCall ELSE rest]
  BY DEF Does
<1>2. r \in Request
  BY <1>1 DEF RegTypeOK, NoCall
<1>3. r.pipe \in Pipe /\ r.graph \in Graph /\ r.todo \in Todo
  BY <1>2 DEF Request
<1>4. /\ Len(r.todo) # 1 => rest \in Request
      /\ rest.pipe = r.pipe /\ rest.todo = Tail(r.todo)
  BY <1>1, <1>3, TodoSteps DEF Request
<1>5. /\ call' \in [Caller -> Request \cup {NoCall}]
      /\ \A d \in Caller \ {c} : call'[d] = call[d]
      /\ call'[c] = IF Len(r.todo) = 1 THEN NoCall ELSE rest
  <2>. HIDE DEF rest, r
  <2>. QED BY <1>1, <1>4 DEF RegTypeOK
<1>. HIDE DEF rest
<1>. QED BY <1>1, <1>3, <1>4, <1>5, TodoSteps

\* What a step of a request leaves at work for a pipeline.
LEMMA StillAtWork ==
  ASSUME NEW c \in Caller, \A d \in Caller \ {c} : call'[d] = call[d],
         NEW p, NEW todo, AtWork(p, todo), ~(call[c].pipe = p /\ call[c].todo = todo)
  PROVE  AtWork(p, todo)'
BY DEF AtWork

\* A step that changes neither a document nor what is known of the exchanges
\* leaves a pipeline settled when it takes nothing off the pipeline's way.
LEMMA StaysSettled ==
  ASSUME NEW p \in Pipe, Settled(p), doc'[p] = doc[p], UNCHANGED <<exch, topo>>,
         OnItsWay(p) => OnItsWay(p)'
  PROVE  Settled(p)'
BY DEF Settled, Wired

\* A request begins, or writes the stub, or ends where the parser raises.
LEMMA RequestStub ==
  ASSUME RegInv, NEW c \in Caller,
         \/ InsertStub(c) \/ GenerationOnly(c)
         \/ \E p \in Pipe, g \in Graph : CreatePipeline(c, p, g) \/ GeneratePipeline(c, p, g)
  PROVE  RegInv'
<1>. USE DEF RegInv
<1>1. /\ UNCHANGED <<cfg, brokerVars, spoiled>>
      /\ call' \in [Caller -> Request \cup {NoCall}]
      /\ \A d \in Caller \ {c} : call'[d] = call[d]
      /\ call[c].todo # ToConfig /\ call[c].todo # ToPublish
      /\ doc' \in [Pipe -> Graph \cup {None, Stub}]
      /\ \A p \in Pipe : doc'[p] = doc[p] \/ doc'[p] = Stub
  <2>1. CASE InsertStub(c)
    BY <2>1, DoesFacts DEF InsertStub, RegTypeOK
  <2>2. CASE GenerationOnly(c)
    BY <2>2, DoesFacts DEF GenerationOnly, RegTypeOK
  <2>3. ASSUME NEW p \in Pipe, NEW g \in Graph, NEW t \in Todo, Begin(c, p, g, t)
        PROVE  /\ UNCHANGED <<doc, cfg, brokerVars, spoiled>>
               /\ call' \in [Caller -> Request \cup {NoCall}]
               /\ \A d \in Caller \ {c} : call'[d] = call[d]
               /\ call[c].todo # ToConfig /\ call[c].todo # ToPublish
    BY <2>3 DEF Begin, RegTypeOK, Request, NoCall, ToConfig, ToPublish
  <2>4. CreateSteps \in Todo /\ GenerateSteps \in Todo
    BY DEF CreateSteps, GenerateSteps, Todo, ToConfig, ToPublish
  <2>. QED BY <2>1, <2>2, <2>3, <2>4 DEF CreatePipeline, GeneratePipeline, RegTypeOK
<1>2. UNCHANGED <<cfg, exch, cmds, evts, topo, spoiled>>
  BY <1>1 DEF brokerVars
<1>3. RegTypeOK' /\ TopoOK'
  BY <1>1, <1>2 DEF RegTypeOK, TopoOK
<1>4. \A p : \A todo \in {ToConfig, ToPublish} : AtWork(p, todo) => AtWork(p, todo)'
  BY <1>1, StillAtWork
<1>5. \A p \in Pipe : doc'[p] \in Graph => doc[p] \in Graph /\ doc'[p] = doc[p]
  BY <1>1, RegAssumption
<1>6. ConfigFollows'
  BY <1>2, <1>4, <1>5 DEF ConfigFollows
<1>7. \A p \in Pipe : OnItsWay(p) => OnItsWay(p)'
  BY <1>2, <1>4 DEF OnItsWay
<1>8. AllSettled'
  BY <1>2, <1>5, <1>7, StaysSettled DEF AllSettled
<1>. QED BY <1>3, <1>6, <1>8

\* A request writes the document, the configuration, or publishes its command.
LEMMA RequestWrites ==
  ASSUME RegInv, NEW c \in Caller, UpdateDoc(c) \/ UpdateConfig(c) \/ PublishCommand(c)
  PROVE  RegInv'
<1>. USE DEF RegInv
<1>0. PICK p, g : p = call[c].pipe /\ g = call[c].graph
  OBVIOUS
<1>1. p \in Pipe /\ g \in Graph /\ g # None
  BY <1>0, DoesFacts, RegAssumption DEF UpdateDoc, UpdateConfig, PublishCommand
<1>2. CASE UpdateDoc(c)
  <2>1. /\ UNCHANGED <<cfg, exch, cmds, evts, topo, spoiled>> /\ doc' = [doc EXCEPT ![p] = g]
        /\ Does(c, "doc")
    BY <1>0, <1>2 DEF UpdateDoc, brokerVars
  <2>2. /\ call' \in [Caller -> Request \cup {NoCall}]
        /\ \A d \in Caller \ {c} : call'[d] = call[d]
        /\ call[c].todo # ToConfig /\ call[c].todo # ToPublish
        /\ call'[c].pipe = p /\ call'[c].todo = ToConfig
    BY <1>0, <2>1, DoesFacts
  <2>3. /\ doc' \in [Pipe -> Graph \cup {None, Stub}]
        /\ \A q \in Pipe \ {p} : doc'[q] = doc[q]
    BY <1>1, <2>1 DEF RegTypeOK
  <2>4. RegTypeOK' /\ TopoOK'
    BY <2>1, <2>2, <2>3 DEF RegTypeOK, TopoOK
  <2>5. AtWork(p, ToConfig)'
    BY <2>2 DEF AtWork
  <2>6. \A q : \A todo \in {ToConfig, ToPublish} : AtWork(q, todo) => AtWork(q, todo)'
    BY <2>2, StillAtWork
  <2>7. ConfigFollows'
    BY <2>1, <2>3, <2>5, <2>6 DEF ConfigFollows
  <2>8. \A q \in Pipe : OnItsWay(q) => OnItsWay(q)'
    BY <2>1, <2>6 DEF OnItsWay
  <2>9. Settled(p)'
    BY <2>5 DEF Settled, OnItsWay
  <2>10. AllSettled'
    BY <2>1, <2>3, <2>8, <2>9, StaysSettled DEF AllSettled
  <2>. QED BY <2>4, <2>7, <2>10
<1>3. CASE UpdateConfig(c)
  <2>1. /\ UNCHANGED <<doc, exch, cmds, evts, topo, spoiled>> /\ cfg' = [cfg EXCEPT ![p] = g]
        /\ Does(c, "cfg")
    BY <1>0, <1>3 DEF UpdateConfig, brokerVars
  <2>2. /\ call' \in [Caller -> Request \cup {NoCall}]
        /\ \A d \in Caller \ {c} : call'[d] = call[d]
        /\ call[c].todo = ToConfig
        /\ call'[c].pipe = p /\ call'[c].todo = ToPublish
    BY <1>0, <2>1, DoesFacts
  <2>3. ToConfig # ToPublish
    BY DEF ToConfig, ToPublish
  <2>4. \A q : /\ q # p /\ AtWork(q, ToConfig) => AtWork(q, ToConfig)'
               /\ AtWork(q, ToPublish) => AtWork(q, ToPublish)'
    BY <1>0, <2>2, <2>3, StillAtWork
  <2>5. AtWork(p, ToPublish)'
    BY <2>2 DEF AtWork
  <2>6. /\ cfg' \in [Pipe -> Graph \cup {None}] /\ cfg'[p] # None
        /\ \A q \in Pipe \ {p} : cfg'[q] = cfg[q]
    BY <1>1, <2>1 DEF RegTypeOK
  <2>7. RegTypeOK' /\ TopoOK'
    BY <2>1, <2>2, <2>6 DEF RegTypeOK, TopoOK
  <2>8. ConfigFollows'
    BY <2>1, <2>4, <2>6 DEF ConfigFollows
  <2>9. \A q \in Pipe : OnItsWay(q) => OnItsWay(q)'
    BY <2>1, <2>4, <2>5 DEF OnItsWay
  <2>10. AllSettled'
    BY <2>1, <2>9, StaysSettled DEF AllSettled
  <2>. QED BY <2>7, <2>8, <2>10
<1>4. CASE PublishCommand(c)
  <2>. DEFINE m == [pipe |-> p, graph |-> None]
  <2>1. /\ UNCHANGED <<doc, cfg, exch, evts, topo>>
        /\ \/ cmds' = Append(cmds, m) /\ spoiled' = spoiled
           \/ cmds' = cmds /\ spoiled' = spoiled \cup {p}
        /\ Does(c, "publish")
    BY <1>0, <1>4 DEF PublishCommand
  <2>2. /\ call' \in [Caller -> Request \cup {NoCall}]
        /\ \A d \in Caller \ {c} : call'[d] = call[d]
        /\ call[c].todo = ToPublish
    BY <1>0, <2>1, DoesFacts
  <2>3. ToConfig # ToPublish
    BY DEF ToConfig, ToPublish
  <2>4. \A q : /\ AtWork(q, ToConfig) => AtWork(q, ToConfig)'
               /\ q # p /\ AtWork(q, ToPublish) => AtWork(q, ToPublish)'
    BY <1>0, <2>2, <2>3, StillAtWork
  <2>5. m \in RegCommand /\ m.pipe = p
    BY <1>1 DEF RegCommand
  <2>. HIDE DEF m
  <2>6. /\ cmds' \in Seq(RegCommand) /\ \A n : Has(cmds, n) => Has(cmds', n)
        /\ p \in spoiled' \/ Has(cmds', m)
    <3>1. cmds \in Seq(RegCommand)
      BY DEF RegTypeOK
    <3>2. CASE cmds' = Append(cmds, m)
      BY <2>5, <3>1, <3>2, HasAppend
    <3>3. CASE cmds' = cmds /\ spoiled' = spoiled \cup {p}
      BY <3>1, <3>3
    <3>. QED BY <2>1, <3>2, <3>3
  <2>11. spoiled \subseteq spoiled'
    BY <2>1
  <2>7. RegTypeOK' /\ TopoOK'
    BY <2>1, <2>2, <2>6 DEF RegTypeOK, TopoOK
  <2>8. ConfigFollows'
    BY <2>1, <2>4, <2>11 DEF ConfigFollows
  <2>9. \A q \in Pipe \ spoiled' : OnItsWay(q) => OnItsWay(q)'
    BY <2>1, <2>4, <2>5, <2>6 DEF OnItsWay
  <2>10. AllSettled'
    BY <2>1, <2>9, <2>11, StaysSettled DEF AllSettled
  <2>. QED BY <2>7, <2>8, <2>10
<1>. QED BY <1>2, <1>3, <1>4

\* A request fails, or a pipeline is stored without a command, or it is deleted:
\* the pipeline is spoiled, or has no document.
LEMMA Spoils ==
  ASSUME RegInv,
         \/ \E c \in Caller : CallFails(c)
         \/ \E p \in Pipe, g \in Graph : StoreCreate(p, g)
         \/ \E p \in Pipe : DeletePipeline(p)
  PROVE  RegInv'
<1>. USE DEF RegInv
<1>1. UNCHANGED brokerVars
  BY DEF CallFails, StoreCreate, DeletePipeline
<1>2. UNCHANGED <<exch, cmds, evts, topo>> /\ TopoOK'
  BY <1>1 DEF brokerVars, TopoOK
<1>3. ASSUME NEW c \in Caller, CallFails(c) PROVE RegInv'
  <2>1. /\ UNCHANGED <<doc, cfg>> /\ call' = [call EXCEPT ![c] = NoCall]
        /\ spoiled' = spoiled \cup {call[c].pipe}
    BY <1>3 DEF CallFails
  <2>2. RegTypeOK'
    BY <1>2, <2>1 DEF RegTypeOK
  <2>3. \A q \in Pipe \ spoiled' : \A todo : AtWork(q, todo) => AtWork(q, todo)'
    BY <2>1, StillAtWork DEF RegTypeOK
  <2>4. \A q \in Pipe \ spoiled' : OnItsWay(q) => OnItsWay(q)'
    BY <1>2, <2>3 DEF OnItsWay
  <2>5. ConfigFollows'
    BY <2>1, <2>3 DEF ConfigFollows
  <2>6. AllSettled'
    BY <1>2, <2>1, <2>4, StaysSettled DEF AllSettled
  <2>. QED BY <1>2, <2>2, <2>5, <2>6
<1>4. ASSUME NEW p \in Pipe, NEW g \in Graph, StoreCreate(p, g) PROVE RegInv'
  <2>1. /\ doc' = [doc EXCEPT ![p] = g] /\ cfg' = [cfg EXCEPT ![p] = g] /\ UNCHANGED call
        /\ spoiled' = spoiled \cup {p}
    BY <1>4 DEF StoreCreate
  <2>2. RegTypeOK'
    BY <1>2, <2>1 DEF RegTypeOK
  <2>3. \A q \in Pipe \ spoiled' : q \notin spoiled /\ doc'[q] = doc[q] /\ cfg'[q] = cfg[q]
    BY <2>1 DEF RegTypeOK
  <2>4. \A q : OnItsWay(q) => OnItsWay(q)'
    BY <1>2, <2>1 DEF OnItsWay, AtWork
  <2>5. ConfigFollows'
    BY <2>1, <2>3 DEF ConfigFollows, AtWork
  <2>6. AllSettled'
    BY <1>2, <2>3, <2>4, StaysSettled DEF AllSettled
  <2>. QED BY <1>2, <2>2, <2>5, <2>6
<1>5. ASSUME NEW p \in Pipe, DeletePipeline(p) PROVE RegInv'
  <2>1. doc' = [doc EXCEPT ![p] = None] /\ UNCHANGED <<cfg, call, spoiled>>
    BY <1>5 DEF DeletePipeline
  <2>2. RegTypeOK'
    BY <1>2, <2>1 DEF RegTypeOK
  <2>3. \A q \in Pipe : doc'[q] \in Graph => doc'[q] = doc[q]
    BY <2>1, RegAssumption DEF RegTypeOK
  <2>4. \A q : OnItsWay(q) => OnItsWay(q)'
    BY <1>2, <2>1 DEF OnItsWay, AtWork
  <2>5. ConfigFollows'
    BY <2>1, <2>3 DEF ConfigFollows, AtWork
  <2>6. AllSettled'
    BY <1>2, <2>1, <2>3, <2>4, StaysSettled DEF AllSettled
  <2>. QED BY <1>2, <2>2, <2>5, <2>6
<1>. QED BY <1>3, <1>4, <1>5

\* A command that carries the definition is queued, or finds no queue.
LEMMA LegacySent ==
  ASSUME RegInv, NEW p \in Pipe, NEW g \in Graph, LegacyCommand(p, g)
  PROVE  RegInv'
<1>. USE DEF RegInv
<1>. DEFINE m == [pipe |-> p, graph |-> g]
<1>1. /\ cmds' = Append(cmds, m) \/ cmds' = cmds
      /\ UNCHANGED <<doc, cfg, exch, evts, call, topo, spoiled>>
  BY DEF LegacyCommand
<1>2. m \in RegCommand
  BY DEF RegCommand
<1>. HIDE DEF m
<1>3. cmds' \in Seq(RegCommand) /\ \A n : Has(cmds, n) => Has(cmds', n)
  <2>1. cmds \in Seq(RegCommand)
    BY DEF RegTypeOK
  <2>2. CASE cmds' = Append(cmds, m)
    BY <1>2, <2>1, <2>2, HasAppend
  <2>. QED BY <1>1, <2>1, <2>2
<1>4. RegTypeOK' /\ TopoOK'
  BY <1>1, <1>3 DEF RegTypeOK, TopoOK
<1>5. \A q : OnItsWay(q) => OnItsWay(q)'
  BY <1>1, <1>3 DEF OnItsWay, AtWork
<1>6. ConfigFollows'
  BY <1>1 DEF ConfigFollows, AtWork
<1>7. AllSettled'
  BY <1>1, <1>5, StaysSettled DEF AllSettled
<1>. QED BY <1>4, <1>6, <1>7

\* The pipeline consumer takes a command.  What it drops has no configuration, so
\* a request is still about to write it; an event without a queue spoils the pipeline.
LEMMA CommandRegistered == ASSUME RegInv, RegisterPipeline PROVE RegInv'
<1>. USE DEF RegInv
<1>0. PICK m : m = Head(cmds)
  OBVIOUS
<1>1. /\ cmds # <<>> /\ cmds' = Tail(cmds) /\ UNCHANGED <<exch, call, topo>>
      /\ \/ /\ m.graph # None /\ doc' = [doc EXCEPT ![m.pipe] = m.graph]
            /\ cfg' = [cfg EXCEPT ![m.pipe] = m.graph]
         \/ UNCHANGED <<doc, cfg>>
      /\ \/ evts' = Append(evts, m.pipe) /\ spoiled' = spoiled
         \/ evts' = evts /\ spoiled' = spoiled \cup {m.pipe}
         \/ UNCHANGED <<doc, cfg, evts, spoiled>> /\ cfg[m.pipe] = None
  BY <1>0 DEF RegisterPipeline, HasFinalConfig, PublishEvent
<1>2. /\ m \in RegCommand /\ cmds' \in Seq(RegCommand)
      /\ \A n : Has(cmds, n) => n = m \/ Has(cmds', n)
  BY <1>0, <1>1, HasTail DEF RegTypeOK
<1>3. m.pipe \in Pipe /\ m.graph \in Graph \cup {None}
  BY <1>2 DEF RegCommand
<1>4. /\ evts' \in Seq(Pipe) /\ \A q : Has(evts, q) => Has(evts', q)
      /\ \/ Has(evts', m.pipe) \/ m.pipe \in spoiled'
         \/ cfg[m.pipe] = None /\ UNCHANGED <<doc, cfg>>
      /\ spoiled \subseteq spoiled'
  <2>1. evts \in Seq(Pipe)
    BY DEF RegTypeOK
  <2>2. evts' = Append(evts, m.pipe) \/ evts' = evts
    BY <1>1
  <2>3. CASE evts' = Append(evts, m.pipe)
    <3>1. evts' \in Seq(Pipe) /\ Has(evts', m.pipe) /\ \A q : Has(evts, q) => Has(evts', q)
      BY <1>3, <2>1, <2>3, HasAppend
    <3>2. spoiled \subseteq spoiled'
      BY <1>1
    <3>. QED BY <3>1, <3>2
  <2>4. CASE evts' = evts
    <3>1. spoiled \subseteq spoiled'
      BY <1>1
    <3>2. m.pipe \in spoiled' \/ (cfg[m.pipe] = None /\ UNCHANGED <<doc, cfg>>) \/ evts' = Append(evts, m.pipe)
      BY <1>1
    <3>3. evts # Append(evts, m.pipe)
      BY <1>3, <2>1
    <3>. QED BY <2>1, <2>4, <3>1, <3>2, <3>3
  <2>. QED BY <2>2, <2>3, <2>4
<1>5. /\ doc' \in [Pipe -> Graph \cup {None, Stub}] /\ cfg' \in [Pipe -> Graph \cup {None}]
      /\ \A q \in Pipe : doc'[q] # doc[q] => q = m.pipe /\ (Has(evts', q) \/ q \in spoiled')
      /\ \A q \in Pipe : (doc'[q] = doc[q] /\ cfg'[q] = cfg[q]) \/ cfg'[q] # None
  BY <1>1, <1>3, <1>4 DEF RegTypeOK
<1>6. RegTypeOK' /\ TopoOK'
  BY <1>1, <1>2, <1>4, <1>5 DEF RegTypeOK, TopoOK
<1>7. \A q, todo : AtWork(q, todo)' <=> AtWork(q, todo)
  BY <1>1 DEF AtWork
<1>8. ConfigFollows'
  BY <1>4, <1>5, <1>7 DEF ConfigFollows
<1>9. ASSUME NEW q \in Pipe \ spoiled', doc[q] \in Graph, OnItsWay(q) PROVE OnItsWay(q)'
  <2>1. CASE q = m.pipe
    <3>1. CASE Has(evts', m.pipe)
      BY <2>1, <3>1 DEF OnItsWay
    <3>2. CASE cfg[m.pipe] = None
      <4>1. q \notin spoiled
        BY <1>4
      <4>2. AtWork(q, ToConfig)
        BY <1>9, <2>1, <3>2, <4>1 DEF ConfigFollows
      <4>. QED BY <1>7, <4>2 DEF OnItsWay
    <3>. QED BY <1>4, <2>1, <3>1, <3>2
  <2>2. CASE q # m.pipe
    BY <1>2, <1>4, <1>7, <1>9, <2>2 DEF OnItsWay
  <2>. QED BY <2>1, <2>2
<1>10. AllSettled'
  <2>. SUFFICES ASSUME NEW q \in Pipe \ spoiled', doc'[q] \in Graph PROVE Settled(q)'
    BY DEF AllSettled
  <2>1. CASE doc'[q] # doc[q]
    BY <1>5, <2>1 DEF Settled, OnItsWay
  <2>2. CASE doc'[q] = doc[q]
    BY <1>1, <1>4, <1>9, <2>2, StaysSettled DEF AllSettled
  <2>. QED BY <2>1, <2>2
<1>. QED BY <1>6, <1>8, <1>10

\* The pipeline consumer fails on a command.
LEMMA CommandLost == ASSUME RegInv, RegisterFails PROVE RegInv'
<1>. USE DEF RegInv
<1>0. PICK m : m = Head(cmds)
  OBVIOUS
<1>1. /\ cmds # <<>> /\ cmds' = Tail(cmds) /\ UNCHANGED <<exch, evts, call, topo>>
      /\ spoiled' = spoiled \cup {m.pipe}
      /\ \/ UNCHANGED <<doc, cfg>>
         \/ /\ m.graph # None /\ doc' = [doc EXCEPT ![m.pipe] = m.graph]
            /\ cfg' \in {cfg, [cfg EXCEPT ![m.pipe] = m.graph]}
  BY <1>0 DEF RegisterFails
<1>2. /\ m \in RegCommand /\ cmds' \in Seq(RegCommand)
      /\ \A n : Has(cmds, n) => n = m \/ Has(cmds', n)
  BY <1>0, <1>1, HasTail DEF RegTypeOK
<1>3. m.pipe \in Pipe /\ m.graph \in Graph \cup {None}
  BY <1>2 DEF RegCommand
<1>4. /\ doc' \in [Pipe -> Graph \cup {None, Stub}] /\ cfg' \in [Pipe -> Graph \cup {None}]
      /\ \A q \in Pipe \ {m.pipe} : doc'[q] = doc[q] /\ cfg'[q] = cfg[q]
  BY <1>1, <1>3 DEF RegTypeOK
<1>5. RegTypeOK' /\ TopoOK'
  BY <1>1, <1>2, <1>4 DEF RegTypeOK, TopoOK
<1>6. \A q, todo : AtWork(q, todo)' <=> AtWork(q, todo)
  BY <1>1 DEF AtWork
<1>7. ConfigFollows'
  BY <1>1, <1>4, <1>6 DEF ConfigFollows
<1>8. \A q \in Pipe \ {m.pipe} : OnItsWay(q) => OnItsWay(q)'
  BY <1>1, <1>2, <1>6 DEF OnItsWay
<1>9. AllSettled'
  BY <1>1, <1>4, <1>8, StaysSettled DEF AllSettled
<1>. QED BY <1>5, <1>7, <1>9

\* The topology consumer takes an event and reads the document.
LEMMA DocumentRead == ASSUME RegInv, ReadDocument PROVE RegInv'
<1>. USE DEF RegInv
<1>0. PICK p : p = Head(evts)
  OBVIOUS
<1>1. /\ topo = NoEvent /\ evts # <<>> /\ evts' = Tail(evts) /\ doc[p] # None
      /\ topo' = [pipe |-> p, graph |-> doc[p],
                  left |-> IF doc[p] = Stub THEN {} ELSE DOMAIN Wiring[doc[p]]]
      /\ UNCHANGED <<doc, cfg, exch, cmds, call, spoiled>>
  BY <1>0 DEF ReadDocument
<1>2. p \in Pipe /\ evts' \in Seq(Pipe) /\ \A q : Has(evts, q) => q = p \/ Has(evts', q)
  BY <1>0, <1>1, HasTail DEF RegTypeOK
<1>3. /\ topo'.pipe = p /\ topo'.graph = doc[p]
      /\ topo'.left = IF doc[p] = Stub THEN {} ELSE DOMAIN Wiring[doc[p]]
  BY <1>1
<1>4. RegTypeOK'
  BY <1>1, <1>2 DEF RegTypeOK
<1>5. TopoOK'
  <2>1. doc[p] \in Graph \cup {Stub}
    BY <1>1, <1>2 DEF RegTypeOK
  <2>2. topo'.left \subseteq Exchange
    BY <1>3, <2>1 DEF Exchange
  <2>3. topo' \in [pipe : Pipe, graph : Graph \cup {Stub}, left : SUBSET Exchange]
    BY <1>1, <1>2, <1>3, <2>1, <2>2
  <2>. QED BY <1>3, <2>1, <2>3 DEF TopoOK
<1>6. ConfigFollows'
  BY <1>1 DEF ConfigFollows, AtWork
<1>7. AllSettled'
  <2>. SUFFICES ASSUME NEW q \in Pipe \ spoiled, doc[q] \in Graph PROVE Settled(q)'
    BY <1>1 DEF AllSettled
  <2>1. CASE q = p
    BY <1>1, <1>3, <2>1, RegAssumption DEF Settled, Wired
  <2>2. CASE q # p
    <3>1. Settled(q) /\ topo.pipe # q
      BY <1>1, RegAssumption DEF AllSettled, NoEvent
    <3>2. OnItsWay(q) => OnItsWay(q)'
      BY <1>1, <1>2, <2>2 DEF OnItsWay, AtWork
    <3>. QED BY <1>1, <1>3, <2>2, <3>1, <3>2 DEF Settled, Wired
  <2>. QED BY <2>1, <2>2
<1>. QED BY <1>4, <1>5, <1>6, <1>7

\* An exchange is declared with the type of the document that was read.
LEMMA ExchangeDeclared == ASSUME RegInv, NEW x, EnsureExchange(x) PROVE RegInv'
<1>. USE DEF RegInv
<1>1. PICK p, g : p = topo.pipe /\ g = topo.graph
  OBVIOUS
<1>2. /\ x \in topo.left /\ exch' = [exch EXCEPT ![x] = [type |-> Wiring[g][x], by |-> p]]
      /\ topo' = [topo EXCEPT !.left = @ \ {x}]
      /\ UNCHANGED <<doc, cfg, cmds, evts, call, spoiled>>
  BY <1>1 DEF EnsureExchange
<1>3. /\ topo # NoEvent /\ topo \in [pipe : Pipe, graph : Graph \cup {Stub}, left : SUBSET Exchange]
      /\ p \in Pipe /\ p # None /\ g \in Graph /\ \A y \in topo.left : y \in DOMAIN Wiring[g]
  BY <1>1, <1>2, RegAssumption DEF TopoOK, NoEvent
<1>4. /\ topo' \in [pipe : Pipe, graph : Graph \cup {Stub}, left : SUBSET Exchange]
      /\ topo'.pipe = p /\ topo'.graph = g /\ topo'.left = topo.left \ {x}
  BY <1>1, <1>2, <1>3
<1>5. x \in Exchange /\ DOMAIN exch' = Exchange
  BY <1>2, <1>3 DEF RegTypeOK
<1>6. /\ exch'[x].type = Wiring[g][x] /\ exch'[x].by = p
      /\ \A y \in Exchange \ {x} : exch'[y] = exch[y]
  BY <1>2, <1>5 DEF RegTypeOK
<1>7. RegTypeOK' /\ TopoOK'
  BY <1>2, <1>3, <1>4, <1>5 DEF RegTypeOK, TopoOK
<1>8. ConfigFollows'
  BY <1>2 DEF ConfigFollows, AtWork
<1>9. AllSettled'
  <2>. SUFFICES ASSUME NEW q \in Pipe \ spoiled, doc[q] \in Graph PROVE Settled(q)'
    BY <1>2 DEF AllSettled
  <2>1. Settled(q) /\ DOMAIN Wiring[doc[q]] \subseteq Exchange
    BY DEF AllSettled, Exchange
  <2>2. OnItsWay(q) => OnItsWay(q)'
    BY <1>2 DEF OnItsWay, AtWork
  <2>3. CASE q = p
    BY <1>1, <1>2, <1>3, <1>4, <1>6, <2>1, <2>2, <2>3 DEF Settled, Wired
  <2>4. CASE q # p
    BY <1>1, <1>2, <1>3, <1>4, <1>6, <2>1, <2>2, <2>4 DEF Settled, Wired
  <2>. QED BY <2>3, <2>4
<1>. QED BY <1>7, <1>8, <1>9

\* The event is acknowledged: everything it names is declared.
LEMMA EventAcked == ASSUME RegInv, AckEvent PROVE RegInv'
<1>. USE DEF RegInv
<1>1. /\ topo.left = {} /\ topo' = NoEvent
      /\ UNCHANGED <<doc, cfg, exch, cmds, evts, call, spoiled>>
  BY DEF AckEvent
<1>2. RegTypeOK' /\ TopoOK' /\ ConfigFollows'
  BY <1>1 DEF RegTypeOK, TopoOK, ConfigFollows, AtWork
<1>3. AllSettled'
  <2>. SUFFICES ASSUME NEW q \in Pipe \ spoiled, doc[q] \in Graph PROVE Settled(q)'
    BY <1>1 DEF AllSettled
  <2>1. Settled(q) /\ topo'.pipe # q
    BY <1>1, RegAssumption DEF AllSettled, NoEvent
  <2>2. OnItsWay(q) => OnItsWay(q)'
    BY <1>1 DEF OnItsWay, AtWork
  <2>. QED BY <1>1, <2>1, <2>2 DEF Settled, Wired
<1>. QED BY <1>2, <1>3

\* The topology consumer is stopped: its event is queued again.
LEMMA EventReturns == ASSUME RegInv, EnsureFails \/ OrchestratorRestart PROVE RegInv'
<1>. USE DEF RegInv
<1>0. PICK p : p = topo.pipe
  OBVIOUS
<1>1. /\ topo' = NoEvent /\ UNCHANGED <<doc, cfg, cmds, call, spoiled>>
      /\ evts' = IF topo = NoEvent THEN evts ELSE <<p>> \o evts
      /\ \/ exch' = exch
         \/ /\ topo # NoEvent
            /\ \E x \in topo.left : exch' = [exch EXCEPT ![x] = [type |-> None, by |-> p]]
  BY <1>0 DEF EnsureFails, OrchestratorRestart
<1>2. topo # NoEvent => p \in Pipe /\ p # None
  BY <1>0, RegAssumption DEF TopoOK
<1>3. /\ evts' \in Seq(Pipe) /\ \A q : Has(evts, q) => Has(evts', q)
      /\ topo # NoEvent => Has(evts', p)
  <2>1. evts \in Seq(Pipe)
    BY DEF RegTypeOK
  <2>. QED BY <1>1, <1>2, <2>1, HasReturn
<1>4. /\ DOMAIN exch' = Exchange
      /\ \A y \in Exchange : exch'[y] = exch[y] \/ (topo # NoEvent /\ exch'[y].by = p)
  BY <1>1 DEF RegTypeOK
<1>5. RegTypeOK' /\ TopoOK' /\ ConfigFollows'
  BY <1>1, <1>3, <1>4 DEF RegTypeOK, TopoOK, ConfigFollows, AtWork
<1>6. AllSettled'
  <2>. SUFFICES ASSUME NEW q \in Pipe \ spoiled, doc[q] \in Graph PROVE Settled(q)'
    BY <1>1 DEF AllSettled
  <2>1. Settled(q) /\ topo'.pipe # q /\ DOMAIN Wiring[doc[q]] \subseteq Exchange
    BY <1>1, RegAssumption DEF AllSettled, NoEvent, Exchange
  <2>2. OnItsWay(q) => OnItsWay(q)'
    BY <1>1, <1>3 DEF OnItsWay, AtWork
  <2>3. CASE topo # NoEvent /\ q = p
    BY <1>3, <2>3 DEF Settled, OnItsWay
  <2>4. CASE topo = NoEvent \/ q # p
    <3>1. topo.pipe # q
      BY <1>0, <2>4, RegAssumption DEF NoEvent
    <3>. QED BY <1>1, <1>2, <1>4, <2>1, <2>2, <2>4, <3>1 DEF Settled, Wired
  <2>. QED BY <2>3, <2>4
<1>. QED BY <1>5, <1>6

\* At the start nothing is stored.
LEMMA RegStart == ASSUME RegistrationInit PROVE RegInv
<1>1. RegTypeOK
  BY DEF RegistrationInit, RegTypeOK
<1>2. TopoOK /\ ConfigFollows /\ AllSettled
  BY RegAssumption DEF RegistrationInit, TopoOK, ConfigFollows, AllSettled
<1>. QED BY <1>1, <1>2 DEF RegInv

\* Every step of the requests and of the two consumers.
LEMMA RegSteps == ASSUME RegInv, [RegistrationNext]_regVars PROVE RegInv'
<1>1. CASE \/ DocumentMissing \/ UNCHANGED regVars
           \/ \E n \in Consumer : DeclareQueueOf(n) \/ ConsumerExits(n)
  <2>1. UNCHANGED <<doc, cfg, exch, cmds, evts, call, topo, spoiled>>
    BY <1>1 DEF DocumentMissing, DeclareQueueOf, ConsumerExits, regVars
  <2>. QED BY <2>1 DEF RegInv, RegTypeOK, TopoOK, ConfigFollows, AllSettled, Settled, OnItsWay, AtWork, Wired
<1>. QED BY <1>1, RequestStub, RequestWrites, Spoils, LegacySent, CommandRegistered, CommandLost,
            DocumentRead, ExchangeDeclared, EventAcked, EventReturns DEF RegistrationNext

\* For any pipelines, definitions, concurrent requests and failures: when the
\* requests are answered and both queues are empty, every exchange of a stored
\* pipeline, none of whose messages was lost to a failure or for want of a queue, was
\* declared, and has the type its document gives it unless another
\* pipeline's event took it over (create_pipeline, register_pipeline_consumer,
\* pipeline_registered_consumer, ensure_topology).
THEOREM StoredMeansWired == RegSpec => []TopologyIsCurrent
<1>1. ASSUME RegInv PROVE TopologyIsCurrent
  <2>. SUFFICES ASSUME RegQuiet, NEW p \in Pipe \ spoiled, doc[p] \in Graph
                PROVE  Wired(p, DOMAIN Wiring[doc[p]])
    BY DEF TopologyIsCurrent, Wired
  <2>1. Settled(p) /\ topo.pipe # p
    BY <1>1, RegAssumption DEF RegInv, AllSettled, RegQuiet, NoEvent
  <2>2. ~AtWork(p, ToConfig) /\ ~AtWork(p, ToPublish)
    BY RegAssumption DEF RegQuiet, AtWork, NoCall, ToConfig, ToPublish
  <2>3. \A m : ~Has(cmds, m) /\ ~Has(evts, m)
    BY DEF RegQuiet, Has
  <2>. QED BY <2>1, <2>2, <2>3 DEF Settled, OnItsWay
<1>. QED BY RegStart, RegSteps, <1>1, PTL DEF RegSpec
=============================================================================
