--------------------------- MODULE ServiceCatalog ---------------------------
(***************************************************************************)
(* Artifacts and the agents started from them: uploads are pushed to the   *)
(* artifact registry and entered in the user's catalog document, whose     *)
(* leaves are written with compare-and-swap; the service registration      *)
(* refers to the artifact; start_task commands turn artifacts into         *)
(* containers named after the service and version.                         *)
(***************************************************************************)
EXTENDS Naturals, Sequences, FiniteSets

CONSTANTS
  Uploader,      \* uploads that may be under way
  Item,          \* (kind, name, version)
  Oci,           \* the items of kind "oci"
  Digest, Sig,
  CasTries,      \* the attempts of UserCatalogStore.upsert
  Name,          \* container names
  Image,
  MaxUploads, MaxStarts, MaxDockerFaults

ASSUME CatalogAssumption ==
  /\ Oci \subseteq Item /\ CasTries \in Nat \ {0}
  /\ MaxUploads \in Nat /\ MaxStarts \in Nat /\ MaxDockerFaults \in Nat

VARIABLES
  catalog,    \* the entry of each item: {} or a singleton
  made, cas,  \* does the document exist, and its CAS value
  registry,   \* the digest the artifact registry serves: {} or a singleton
  up,         \* the uploads
  kept,       \* the uploads whose upsert returned "created", "updated" or "unchanged"
  services,   \* the (item, digest) pairs service registrations refer to
  uploads,
  starts,     \* queue commands.start_task
  container,        \* the container of each name: {} or [image, running]
  latest,     \* the image of each name's last start command
  shaken,     \* names for which Docker failed since their last start
  sent, dockerFaults

catalogVars == <<catalog, made, cas, registry, up, kept, services, uploads>>
launchVars == <<starts, container, latest, shaken, sent, dockerFaults>>
serviceVars == <<catalogVars, launchVars>>

Free == [pc |-> "free"]

CatalogInit ==
  /\ catalog = [i \in Item |-> {}] /\ made = FALSE /\ cas = 0
  /\ registry = [i \in Item |-> {}]
  /\ up = [u \in Uploader |-> Free]
  /\ kept = {} /\ services = {} /\ uploads = 0
  /\ starts = <<>> /\ container = [n \in Name |-> {}] /\ latest = [n \in Name |-> {}]
  /\ shaken = {} /\ sent = 0 /\ dockerFaults = 0

\* ingest_wheel and ingest_oci push first.  An index refuses a wheel it has
\* ("already exists" is a warning); skopeo copy moves a tag.
Push(u, i, d, S) ==
  /\ up[u] = Free /\ uploads < MaxUploads
  /\ i \in Oci => S = {}
  /\ uploads' = uploads + 1
  /\ registry' = [registry EXCEPT ![i] = IF i \in Oci \/ @ = {} THEN {d} ELSE @]
  /\ up' = [up EXCEPT ![u] = [pc |-> "get", item |-> i, digest |-> d, sigs |-> S, tries |-> 0, seen |-> 0, snap |-> catalog]]
  /\ UNCHANGED <<catalog, made, cas, kept, services, launchVars>>

\* upsert reads the document.
GetCatalog(u) ==
  /\ up[u].pc = "get" /\ up[u].tries < CasTries
  /\ up' = [up EXCEPT ![u] =
              IF made THEN [@ EXCEPT !.pc = "put", !.seen = cas, !.snap = catalog]
                      ELSE [@ EXCEPT !.pc = "insert"]]
  /\ UNCHANGED <<catalog, made, cas, registry, kept, services, uploads, launchVars>>

\* There is none: insert the skeleton, or find that another upload did; again.
InsertSkeleton(u) ==
  /\ up[u].pc = "insert"
  /\ made' = TRUE /\ cas' = IF made THEN cas ELSE cas + 1
  /\ up' = [up EXCEPT ![u].pc = "get", ![u].tries = @ + 1]
  /\ UNCHANGED <<catalog, registry, kept, services, uploads, launchVars>>

\* Faulty variant: the document is replaced whatever its CAS value.
ReplacesBlindly(u) == TRUE

\* replace(cas=...) finds the document as it was read.
CasMatches(u) == up[u].seen = cas

\* The entry the upload found.
Existing(r) == r.snap[r.item]

\* The leaf upsert would write, given the entry it read; {} when it writes none.
\* No caller sets allow_overwrite.
NewLeaf(r) ==
  IF Existing(r) = {} THEN {[digest |-> r.digest, sigs |-> r.sigs]}
  ELSE {[e EXCEPT !.sigs = @ \cup r.sigs] :
          e \in {e \in Existing(r) : e.digest = r.digest /\ r.sigs \ e.sigs # {}}}

\* An entry of kind "oci" has neither of the fields the comparison reads.
Raises(r) == Existing(r) # {} /\ r.item \in Oci

Conflicts(r) ==
  Existing(r) # {} /\ r.item \notin Oci /\ \A e \in Existing(r) : e.digest # r.digest

\* The answer goes out and the service registration is stored.
Answer(u) ==
  /\ services' = services \cup {<<up[u].item, up[u].digest>>}
  /\ up' = [up EXCEPT ![u] = Free]

\* A leaf is written, with the rest of the document as it was read: "created" or "updated".
PutLeaf(u) ==
  LET r == up[u] IN
  /\ r.pc = "put" /\ ~Raises(r) /\ NewLeaf(r) # {} /\ CasMatches(u)
  /\ catalog' = [r.snap EXCEPT ![r.item] = NewLeaf(r)]
  /\ cas' = cas + 1
  /\ kept' = kept \cup {[item |-> r.item, digest |-> r.digest, sigs |-> r.sigs]}
  /\ Answer(u)
  /\ UNCHANGED <<made, registry, uploads, launchVars>>

CasMismatch(u) ==
  LET r == up[u] IN
  /\ r.pc = "put" /\ ~Raises(r) /\ NewLeaf(r) # {} /\ ~CasMatches(u)
  /\ up' = [up EXCEPT ![u].pc = "get", ![u].tries = @ + 1]
  /\ UNCHANGED <<catalog, made, cas, registry, kept, services, uploads, launchVars>>

\* Nothing to add: "unchanged".
Unchanged(u) ==
  LET r == up[u] IN
  /\ r.pc = "put" /\ ~Raises(r) /\ ~Conflicts(r) /\ NewLeaf(r) = {}
  /\ kept' = kept \cup {[item |-> r.item, digest |-> r.digest, sigs |-> r.sigs]}
  /\ Answer(u)
  /\ UNCHANGED <<catalog, made, cas, registry, uploads, launchVars>>

\* ingest_wheel keeps the entry there is and goes on with its own digest.
Conflict(u) ==
  /\ up[u].pc = "put" /\ Conflicts(up[u])
  /\ Answer(u)
  /\ UNCHANGED <<catalog, made, cas, registry, kept, uploads, launchVars>>

\* 502: the comparison raises, or the attempts are used up.
UploadFails(u) ==
  /\ \/ up[u].pc = "put" /\ Raises(up[u])
     \/ up[u].pc = "get" /\ up[u].tries = CasTries
  /\ up' = [up EXCEPT ![u] = Free]
  /\ UNCHANGED <<catalog, made, cas, registry, kept, services, uploads, launchVars>>

\* ServiceStore.delete
DeleteService(s) ==
  /\ s \in services /\ services' = services \ {s}
  /\ UNCHANGED <<catalog, made, cas, registry, up, kept, uploads, launchVars>>

----------------------------------------------------------------------------
SendStart(n, g) ==
  /\ sent < MaxStarts
  /\ sent' = sent + 1 /\ starts' = Append(starts, <<n, g>>)
  /\ UNCHANGED <<catalogVars, container, latest, shaken, dockerFaults>>

Running(g) == {[image |-> g, running |-> TRUE]}

\* Faulty variant: a container of that name is left where it is.
RunKeepsOld(old, g) == IF old = {} THEN Running(g) ELSE old

\* run_container_cli: docker rm -f, then docker run.
RunContainerCli(old, g) == Running(g)

\* create_container fails when the name is taken; then the command line is used.
CreateAndStart(old, g) == IF old = {} THEN Running(g) ELSE RunContainerCli(old, g)

\* _handle_start_task with Docker working.
StartTask ==
  /\ starts # <<>>
  /\ LET n == Head(starts)[1]  g == Head(starts)[2] IN
       /\ container' = [container EXCEPT ![n] = CreateAndStart(@, g)]
       /\ latest' = [latest EXCEPT ![n] = {g}]
       /\ shaken' = shaken \ {n}
  /\ starts' = Tail(starts)
  /\ UNCHANGED <<catalogVars, sent, dockerFaults>>

\* The image is not to be had, Docker is down (nothing changes), the API's
\* container stays unstarted, or the old one is removed and the new one does not
\* run; the error is logged and the command acknowledged.
StartTaskFails ==
  /\ starts # <<>> /\ dockerFaults < MaxDockerFaults
  /\ dockerFaults' = dockerFaults + 1
  /\ LET n == Head(starts)[1]  g == Head(starts)[2] IN
       /\ \E b \in {container[n], {}} \cup
               IF container[n] = {} THEN {{[image |-> g, running |-> FALSE]}} ELSE {} :
            container' = [container EXCEPT ![n] = b]
       /\ latest' = [latest EXCEPT ![n] = {g}]
       /\ shaken' = shaken \cup {n}
  /\ starts' = Tail(starts)
  /\ UNCHANGED <<catalogVars, sent>>

\* The agent ends and Docker removes its container.
ContainerExits(n) ==
  /\ \E b \in container[n] : b.running
  /\ container' = [container EXCEPT ![n] = {}]
  /\ UNCHANGED <<catalogVars, starts, latest, shaken, sent, dockerFaults>>

CatalogNext ==
  \/ \E u \in Uploader :
       \/ \E i \in Item, d \in Digest, S \in SUBSET Sig : Push(u, i, d, S)
       \/ GetCatalog(u) \/ InsertSkeleton(u) \/ PutLeaf(u) \/ CasMismatch(u)
       \/ Unchanged(u) \/ Conflict(u) \/ UploadFails(u)
  \/ \E s \in services : DeleteService(s)
LaunchNext ==
  \/ \E n \in Name, g \in Image : SendStart(n, g)
  \/ StartTask \/ StartTaskFails \/ \E n \in Name : ContainerExits(n)

ServiceSpec == CatalogInit /\ [][CatalogNext \/ LaunchNext]_serviceVars

\* Whatever uploads race on the catalog document, an upload for which upsert
\* returned "created", "updated" or "unchanged" is in the catalog with its digest
\* and with all of its signatures.
CatalogKeepsEntries ==
  \A k \in kept : \E e \in catalog[k.item] : e.digest = k.digest /\ k.sigs \subseteq e.sigs

\* However often a service is started, and whatever a failed start left behind,
\* the container under its name runs the image of the last start command, unless
\* Docker failed on that command.
LastStartRuns ==
  \A n \in Name \ shaken : \A b \in container[n] : b.running /\ latest[n] = {b.image}
=============================================================================
