------------------------------- MODULE Sharing -------------------------------
(***************************************************************************)
(* The permissions of one user on a dataset and its views, and the cached  *)
(* answers to "may this user read the tiles of this resource".             *)
(*                                                                         *)
(* Sharing a dataset takes the permissions of every role away, one by one, *)
(* assigns those of the new role, one by one, and then does the same for   *)
(* each view of the dataset (grant_dataset_viewer, grant_dataset_manager,  *)
(* revoke_dataset_access, ...).  A view that is created meanwhile gives    *)
(* the users of its dataset their permissions itself (view_post_create).   *)
(* Nothing is in a transaction: every permission is a statement.           *)
(*                                                                         *)
(* A tile request asks IsDatasetAllowedAPI, which keeps its answer in      *)
(* Redis for an hour; some of the changes delete the answers they concern. *)
(*                                                                         *)
(* Of the permissions that come and go together one is kept: "upload" for  *)
(* those a writer has, "add_view" for a manager's, "delete" for an         *)
(* owner's; likewise "manage" and "own" of a view.                         *)
(*                                                                         *)
(* An operator X_Y states the code of X with the mistake Y.                *)
(***************************************************************************)
EXTENDS Naturals, Sequences, FiniteSets, Functions

CONSTANTS
    Level,    \* privacy levels
    View,     \* views of the dataset
    Old,      \* those that exist from the start
    Resource, \* <<view, level>>: the resources tiles are asked of
    Request,  \* changes that are made: a bound
    Check     \* tile requests that may be under way at the same time

ASSUME SharingAssumption ==
    /\ Level \subseteq Nat /\ IsFiniteSet(Level) /\ 1 \in Level
    /\ \A l \in Level : 1 .. l \subseteq Level /\ l > 0
    /\ "dataset" \notin View /\ Old \subseteq View /\ Resource \subseteq View \X Level

VARIABLES
    dperm,     \* the permissions on the dataset
    vperm,     \* the permissions on each view
    views,     \* the views that exist
    cache,     \* the cached answers
    request,   \* the changes
    check,     \* the tile requests
    intended,  \* history: the role last given, or that nobody can tell
    shared,    \* history: whether the user was last given access
    aligned,   \* history: no change overlapped one or the creation of a view
    coherent,  \* history: views whose last change deletes cached answers
    tainted    \* history: views for which an answer was stored that was read
               \* before a change, and not deleted since

perms == <<dperm, vperm>>
history == <<intended, shared, aligned, coherent, tainted>>
vars == <<perms, views, cache, request, check, history>>

-----------------------------------------------------------------------------
(* Permissions and roles                                                   *)

Top == CHOOSE n \in Level : \A l \in Level : l <= n

Read(l) == <<"read", l>>        \* view_dataset_level_<l>
Ext(l) == <<"ext", l>>          \* ext_view_datasetview_level_<l>
P(name) == <<name, 0>>

\* The lists of permissions of a role, in their order
Reads_OneMore(l) == [i \in 1 .. l + 1 |-> Read(i)]

Reads(l) == [i \in 1 .. l |-> Read(i)]

Exts(l) == [i \in 1 .. l |-> Ext(i)]
WriteDataset == <<P("upload")>> \o Reads(Top)
ManageDataset == <<P("add_view")>> \o WriteDataset
OwnDataset == <<P("delete")>> \o ManageDataset
ReadView == <<P("view")>>
ManageView == <<P("manage")>> \o ReadView
OwnView == <<P("own")>> \o ManageView

DatasetPerm == {P("delete"), P("add_view"), P("upload")} \cup {Read(l) : l \in Level}
ViewPerm == {P("own"), P("manage"), P("view")} \cup {Ext(l) : l \in Level}

Role == {"none", "writer", "manager", "owner"} \X {0}
          \cup {"viewer"} \X Level
NoRole == <<"none", 0>>
Viewer(l) == <<"viewer", l>>
Unknown == <<"unknown", 0>>

DatasetList(role) ==
    CASE role[1] = "none" -> <<>>
      [] role[1] = "viewer" -> Reads(role[2])
      [] role[1] = "writer" -> WriteDataset
      [] role[1] = "manager" -> ManageDataset
      [] role[1] = "owner" -> OwnDataset

ViewList(role) ==
    CASE role[1] = "none" -> <<>>
      [] role[1] = "viewer" -> ReadView
      [] role[1] \in {"writer", "manager"} -> ManageView
      [] role[1] = "owner" -> OwnView

\* get_view_permission_privacy_level: a resource of level r may be read
Allowed(v, r) ==
    \E l \in Level : l >= r /\ (Read(l) \in dperm \/ Ext(l) \in vperm[v])

-----------------------------------------------------------------------------
(* The plan of a change: permissions to remove and to assign               *)

Removes(list) == [i \in DOMAIN list |-> <<"remove", list[i]>>]
Assigns(list) == [i \in DOMAIN list |-> <<"assign", list[i]>>]
ResetCache == << <<"reset", P("none")>> >>        \* reset_datasetview_cache

\* grant_dataset_viewer, grant_dataset_manager: all is revoked first; an owner
\* is only given what is missing.
GrantDataset_Add(role) == Assigns(DatasetList(role))

GrantDataset(role) ==
    IF role[1] = "owner" THEN Assigns(OwnDataset)
    ELSE Removes(OwnDataset) \o Assigns(DatasetList(role))

\* grant_datasetview_viewer, _manager, _owner
GrantView_Add(role) == Assigns(ViewList(role)) \o ResetCache

GrantView(role) ==
    CASE role[1] = "owner" -> Assigns(OwnView)
      [] role[1] = "viewer" -> Removes(OwnView) \o Assigns(ReadView) \o ResetCache
      [] OTHER -> Removes(OwnView) \o Assigns(ManageView)

\* revoke_dataset_access: the highest role that is found
RevokeDataset ==
    Removes(CASE P("delete") \in dperm -> OwnDataset
              [] P("delete") \notin dperm /\ P("add_view") \in dperm -> ManageDataset
              [] dperm \cap {P("delete"), P("add_view")} = {} /\ P("upload") \in dperm
                   -> WriteDataset
              [] OTHER -> Reads(Top))

\* revoke_datasetview_access, for a view the user can see
RevokeView(v) ==
    IF P("view") \notin vperm[v] THEN <<>>
    ELSE Removes(CASE P("own") \in vperm[v] -> OwnView
                   [] P("own") \notin vperm[v] /\ P("manage") \in vperm[v] -> ManageView
                   [] OTHER -> ReadView)
         \o ResetCache

\* grant_datasetview_external_viewer; level 0: revoke_datasetview_external_viewer
ShareView_ResetFirst(l) ==
    ResetCache \o Removes(Exts(Top)) \o Assigns(Exts(l))

ShareView(l) == Removes(Exts(Top)) \o Assigns(Exts(l)) \o ResetCache

-----------------------------------------------------------------------------
(* The changes                                                             *)

Active(q) == request[q].pc \notin {"idle", "done"}
OthersActive(q) == {p \in Request \ {q} : Active(p)}

\* Changes of the whole dataset, and creations of a view
SharesDataset(q) == request[q].kind \in {"grant", "revoke", "downgrade"}
Revoking(q) == \E p \in OthersActive(q) : request[p].kind \in {"revoke", "downgrade"}
Creates(q) == request[q].kind = "create"

Fresh == [kind |-> "none", pc |-> "idle", role |-> NoRole, on |-> "dataset",
          plan |-> <<>>, todo |-> {}, sole |-> FALSE]

NoCheck == [pc |-> "idle", resource |-> <<>>, answer |-> "none", dirty |-> FALSE]

Init ==
    \E role \in Role :
      /\ dperm = Range(DatasetList(role))
      /\ vperm = [v \in View |-> IF v \in Old THEN Range(ViewList(role)) ELSE {}]
      /\ views = Old
      /\ cache = [x \in Resource |-> "none"]
      /\ request = [q \in Request |-> Fresh]
      /\ check = [c \in Check |-> NoCheck]
      /\ intended = role /\ aligned = TRUE
      /\ coherent = Old /\ tainted = {}
      /\ shared = IF role = NoRole THEN "no" ELSE "yes"

Begins(q, kind, role, on, plan) ==
    /\ request[q].pc = "idle"
    /\ request' = [p \in Request |->
         IF p # q THEN [request[p] EXCEPT !.sole = FALSE]
         ELSE [kind |-> kind, role |-> role, on |-> on, plan |-> plan, todo |-> {},
               pc |-> IF on = "dataset" THEN "dataset" ELSE "views",
               sole |-> OthersActive(q) = {}]]
    /\ UNCHANGED <<perms, views, cache, check>>

\* What is then expected: nothing certain while another change is under way
Expect(q, role) ==
    LET rivals == {p \in OthersActive(q) : SharesDataset(p)}
        creations == {p \in OthersActive(q) : Creates(p)}
    IN  /\ intended' = IF rivals # {} \/ (role = NoRole /\ intended = Unknown)
                       THEN Unknown ELSE role
        /\ aligned' = (/\ rivals \cup creations = {}
                       /\ role = NoRole => aligned)

\* PermissionActorList.post: the dataset is shared with a role, or another.
Grant(q, role) ==
    /\ role # NoRole /\ Begins(q, "grant", role, "dataset", GrantDataset(role))
    /\ Expect(q, role)
    /\ shared' = IF Revoking(q) THEN "open" ELSE "yes"
    /\ coherent' = IF role[1] = "viewer" THEN coherent ELSE {}
    /\ UNCHANGED tainted

\* PermissionActorList.delete: the answers are deleted of views the user can see.
Revoke(q) ==
    /\ Begins(q, "revoke", NoRole, "dataset", RevokeDataset)
    /\ Expect(q, NoRole)
    /\ shared' = IF OthersActive(q) = {} THEN "no" ELSE "open"
    /\ coherent' = IF OthersActive(q) = {}
                   THEN {v \in coherent : P("view") \in vperm[v] \/ dperm = {}} ELSE {}
    /\ UNCHANGED tainted

\* downgrade_creator_to_viewer: revoked, then a viewer of level 1
Downgrade(q) ==
    /\ \E l \in Level : Read(l) \in dperm
    /\ Begins(q, "downgrade", Viewer(1), "dataset", RevokeDataset)
    /\ Expect(q, Viewer(1))
    /\ shared' = IF OthersActive(q) = {} THEN "yes" ELSE "open"
    /\ coherent' = IF OthersActive(q) = {} THEN coherent ELSE {}
    /\ UNCHANGED tainted

\* One view is shared with a user of another dataset, or no longer.
GrantExternal(q, v, l) ==
    /\ v \in views
    /\ Begins(q, "external", NoRole, v, ShareView(l))
    /\ UNCHANGED history

\* A view is created; its post_save hook runs after the row is there.
CreateView(q, v) ==
    /\ v \notin views /\ request[q].pc = "idle"
    /\ views' = views \cup {v}
    /\ request' = [request EXCEPT ![q] = [Fresh EXCEPT !.kind = "create",
                                                       !.pc = "created", !.on = v]]
    /\ LET alone == \A p \in OthersActive(q) : ~SharesDataset(p)
       IN  /\ aligned' = (aligned /\ alone)
           /\ coherent' = IF alone THEN coherent \cup {v} ELSE coherent
    /\ shared' = IF Revoking(q) THEN "open" ELSE shared
    /\ UNCHANGED <<perms, cache, check, intended, tainted>>

\* get_users_with_perms: is the user one of the dataset's?
FindUsers(q) ==
    /\ request[q].pc = "created"
    /\ request' = [request EXCEPT ![q].pc = IF dperm = {} THEN "done" ELSE "found"]
    /\ UNCHANGED <<perms, views, cache, check, history>>

\* A manager, a viewer, or no longer either
GrantOnCreation(q) ==
    /\ request[q].pc = "found"
    /\ request' = [request EXCEPT
         ![q].pc = "views",
         ![q].plan = CASE dperm \cap {P("upload"), P("add_view")} # {}
                            -> GrantView(<<"manager", 0>>)
                       [] dperm \cap {P("upload"), P("add_view")} = {}
                          /\ \E l \in Level : Read(l) \in dperm -> GrantView(Viewer(1))
                       [] OTHER -> <<>>]
    /\ UNCHANGED <<perms, views, cache, check, history>>

-----------------------------------------------------------------------------
(* The steps of a change                                                   *)

\* Without the answers for the resources of v
Cleared(v) == [x \in Resource |-> IF x[1] = v THEN "none" ELSE cache[x]]

\* A tile request under way may have read what is changed now.
Disturb == check' = [c \in Check |-> [check[c] EXCEPT !.dirty = check[c].pc = "read"]]

\* The next permission of the plan
Step(q) ==
    LET op == Head(request[q].plan)
        on == request[q].on
    IN  /\ request[q].plan # <<>>
        /\ request' = [request EXCEPT ![q].plan = Tail(@)]
        /\ CASE op[1] = "reset" ->
                  /\ cache' = Cleared(on)
                  /\ tainted' = tainted \ {on}
                  /\ UNCHANGED <<perms, check>>
             [] op[1] = "remove" ->
                  /\ IF on = "dataset"
                     THEN dperm' = dperm \ {op[2]} /\ UNCHANGED vperm
                     ELSE vperm' = [vperm EXCEPT ![on] = @ \ {op[2]}] /\ UNCHANGED dperm
                  /\ Disturb /\ UNCHANGED <<cache, tainted>>
             [] op[1] = "assign" ->
                  /\ IF on = "dataset"
                     THEN dperm' = dperm \cup {op[2]} /\ UNCHANGED vperm
                     ELSE vperm' = [vperm EXCEPT ![on] = @ \cup {op[2]}] /\ UNCHANGED dperm
                  /\ Disturb /\ UNCHANGED <<cache, tainted>>
        /\ UNCHANGED <<views, intended, shared, aligned, coherent>>

Through(q) == Active(q) /\ request[q].plan = <<>>

\* The views of the dataset are listed after its permissions are assigned.
ListViews_Early(q) ==
    /\ request[q].pc = "dataset" /\ request[q].plan # <<>> /\ request[q].todo = {}
    /\ request' = [request EXCEPT ![q].pc = "views", ![q].todo = views]
    /\ UNCHANGED <<perms, views, cache, check, history>>

ListViews(q) ==
    /\ Through(q) /\ request[q].pc = "dataset"
    /\ request' = [request EXCEPT ![q].pc = "views", ![q].todo = views]
    /\ UNCHANGED <<perms, views, cache, check, history>>

NextView(q) ==
    /\ Through(q) /\ request[q].pc = "views"
    /\ \E v \in request[q].todo :
         request' = [request EXCEPT
           ![q].todo = @ \ {v}, ![q].on = v,
           ![q].plan = IF request[q].kind = "grant" THEN GrantView(request[q].role)
                       ELSE RevokeView(v)]
    /\ UNCHANGED <<perms, views, cache, check, history>>

\* The change is done; after it has revoked, a downgrade grants.
End(q) ==
    /\ Through(q) /\ request[q].pc = "views" /\ request[q].todo = {}
    /\ LET again == request[q].kind = "downgrade"
       IN  /\ request' = [request EXCEPT
                ![q] = IF again
                       THEN [@ EXCEPT !.kind = "grant", !.pc = "dataset",
                                      !.on = "dataset",
                                      !.plan = GrantDataset(request[q].role)]
                       ELSE [Fresh EXCEPT !.pc = "done"]]
           /\ coherent' = IF again \/ ~request[q].sole THEN coherent
                          ELSE CASE request[q].kind = "external" -> coherent \cup {request[q].on}
                                 [] request[q].role[1] = "viewer" -> views
                                 [] OTHER -> coherent
    /\ UNCHANGED <<perms, views, cache, check, intended, shared, aligned, tainted>>

-----------------------------------------------------------------------------
(* IsDatasetAllowedAPI                                                     *)

Answer(x) == IF Allowed(x[1], x[2]) THEN "yes" ELSE "no"

\* Nothing is cached: the permissions are read ...
ReadPerms(c, x) ==
    /\ check[c].pc = "idle" /\ x[1] \in views /\ cache[x] = "none"
    /\ check' = [check EXCEPT ![c] = [pc |-> "read", resource |-> x, dirty |-> FALSE,
                                      answer |-> Answer(x)]]
    /\ UNCHANGED <<perms, views, cache, request, history>>

\* ... and the answer is cached.
Store(c) ==
    LET x == check[c].resource
    IN  /\ check[c].pc = "read"
        /\ cache' = [cache EXCEPT ![x] = check[c].answer]
        /\ tainted' = IF check[c].dirty THEN tainted \cup {x[1]} ELSE tainted
        /\ check' = [check EXCEPT ![c] = NoCheck]
        /\ UNCHANGED <<perms, views, request, intended, shared, aligned, coherent>>

\* redis_time_cache
Expire_Never(x) ==
    /\ FALSE /\ cache[x] # "none"
    /\ cache' = [cache EXCEPT ![x] = "none"]
    /\ UNCHANGED <<perms, views, request, check, history>>

Expire(x) ==
    /\ cache[x] # "none"
    /\ cache' = [cache EXCEPT ![x] = "none"]
    /\ UNCHANGED <<perms, views, request, check, history>>

\* DatasetView.save deletes the answers for all its resources.
SaveView(v) ==
    /\ v \in views /\ cache # Cleared(v)
    /\ cache' = Cleared(v) /\ tainted' = tainted \ {v}
    /\ UNCHANGED <<perms, views, request, check, intended, shared, aligned, coherent>>

-----------------------------------------------------------------------------
(* Specification                                                           *)

Ask(q) ==
    \/ \E role \in Role : Grant(q, role)
    \/ Revoke(q) \/ Downgrade(q)
    \/ \E v \in View, l \in Level \cup {0} : GrantExternal(q, v, l)
    \/ \E v \in View : CreateView(q, v)

Carry(q) ==
    \/ FindUsers(q) \/ GrantOnCreation(q)
    \/ Step(q) \/ ListViews(q) \/ NextView(q) \/ End(q)

Next ==
    \/ \E q \in Request : Ask(q) \/ Carry(q)
    \/ \E c \in Check : Store(c) \/ \E x \in Resource : ReadPerms(c, x)
    \/ \E v \in View : SaveView(v)
    \/ \E x \in Resource : Expire(x)

Spec == Init /\ [][Next]_vars

\* Requests that were begun are carried on, and what is cached expires.
FairSpec ==
    /\ Spec
    /\ \A q \in Request : WF_vars(Carry(q))
    /\ \A c \in Check : WF_vars(Store(c))
    /\ \A x \in Resource : WF_vars(Expire(x))

-----------------------------------------------------------------------------
(* Properties                                                              *)

\* Every variable keeps its type; a view that does not exist has nothing.
TypeOK ==
    /\ dperm \subseteq DatasetPerm
    /\ vperm \in [View -> SUBSET ViewPerm]
    /\ views \subseteq View /\ \A v \in View \ views : vperm[v] = {}
    /\ cache \in [Resource -> {"none", "yes", "no"}]
    /\ intended \in Role \cup {Unknown}
    /\ shared \in {"yes", "no", "open"} /\ aligned \in BOOLEAN
    /\ coherent \subseteq views /\ tainted \subseteq views

Quiet == \A q \in Request : ~Active(q)

\* After any sequence of grants and revocations that did not overlap, the
\* user has exactly the permissions of the last role: nothing of an earlier
\* role is left, whichever was revoked or replaced by which.
RoleWhole ==
    Quiet /\ intended # Unknown => dperm = Range(DatasetList(intended))

\* ... and on every view of the dataset those of that role, also on views
\* that were created in between; there an owner is made a manager.
ViewsFollow ==
    Quiet /\ intended # Unknown /\ aligned =>
      \A v \in views :
        LET has == vperm[v] \cap Range(OwnView)
        IN  \/ has = Range(ViewList(intended))
            \/ intended[1] = "owner" /\ v \notin Old /\ has = Range(ManageView)

\* A user whom the dataset was shared with can read it and see all its views,
\* however many grants overlapped, and whenever the views were created:
\* either the grant lists the new view or the new view finds the user.
NobodyLeftOut ==
    Quiet /\ shared = "yes" =>
      /\ Read(1) \in dperm
      /\ \A v \in views : P("view") \in vperm[v]

\* When no change is under way, the cached answers of a view are right, if
\* the last changes were of those that delete answers (to and from viewers,
\* external ones too), and no tile request stored what it had read before.
CacheAgrees ==
    Quiet => \A x \in Resource : x[1] \in coherent \ tainted =>
               cache[x] \in {"none", Answer(x)}

\* All other wrong answers last an hour: once changes have stopped, the
\* cached answers are right for ever.
CacheSettles ==
    <>[](\A x \in Resource : cache[x] \in {"none", Answer(x)})
=============================================================================
