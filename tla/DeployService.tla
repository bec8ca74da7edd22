--------------------------- MODULE DeployService ---------------------------
(***************************************************************************)
(* One app that was published and is up: its record (versions, the current *)
(* and the applied one, status, endpoint), the operations of its owners    *)
(* and visits, which resolve the body that serves it (deploy-service.ts,   *)
(* deploy-store.ts).  Every setter of the store reads the whole record and *)
(* then puts it back.  Most of an operation runs under the deployment's    *)
(* lock; a visit's setters, the default audience a publication ends with,  *)
(* the rename it may begin with and the transfer to another owner do not.  *)
(* The body is what the provider's pointer for the app leads to: it serves *)
(* one version and may end by itself.                                      *)
(***************************************************************************)
EXTENDS Naturals, SequencesExt

CONSTANTS Owners, Visitors, NoHolder,
          First,            \* the content of the first version
          MaxVersions,      \* bound on the versions of an app
          MaxDeployFaults   \* bound on statements that throw, deaths and bodies that end

ASSUME DeployAssumption ==
    /\ Owners \cap Visitors = {} /\ NoHolder \notin Owners \cup Visitors
    /\ First \notin Owners
    /\ MaxVersions \in Nat \ {0} /\ MaxDeployFaults \in Nat

VARIABLES app,            \* the record
          holder,         \* who holds the lock deploy:<id>
          op,             \* the operation or visit of each caller
          body,           \* the version the live body serves, 0 when there is none
          leftOver,       \* the last destroy failed quietly and left the body
          settled,        \* the last operation under the lock ran to its end
          deployFaults

deployVars == <<app, holder, op, body, leftOver, settled, deployFaults>>

Clients  == Owners \cup Visitors
Versions == 1 .. MaxVersions
App == [versions : Seq(Owners \cup {First}), current : Versions, applied : Versions,
        status : {"running", "archived"}, endpoint : BOOLEAN]
NoApp == [versions |-> <<>>, current |-> 0, applied |-> 0, status |-> "archived", endpoint |-> FALSE]

DeployInit ==
    /\ app = [versions |-> <<First>>, current |-> 1, applied |-> 1, status |-> "running", endpoint |-> TRUE]
    /\ holder = NoHolder /\ body = 1 /\ leftOver = FALSE /\ settled = TRUE /\ deployFaults = 0
    /\ op = [c \in Clients |-> [at |-> "idle", kind |-> "none", v |-> 0, todo |-> <<>>, copy |-> NoApp]]
-----------------------------------------------------------------------------
\* The statements of an operation: two are the provider's, the others setters of the store.
Statements == {"apply", "destroy", "version", "current", "applied", "endpoint", "withdrawn",
               "running", "archived", "touch", "settings"}

\* markVersionRunning, after the version was applied.
Place == <<"apply", "endpoint", "running", "applied">>

\* Mutated form: the body is left running.
TakeDownHalf == <<"archived", "withdrawn">>

\* The statements of archiveDeployment, and of a restore that failed.
TakeDown == <<"destroy", "archived", "withdrawn">>

\* What an operation does under the lock.
Program(kind) ==
    CASE kind = "publish"  -> <<"version">> \o Place
      [] kind = "rollback" -> <<"current">> \o Place
      [] kind = "archive"  -> TakeDown
      [] kind = "restore"  -> Place
      [] kind = "edit"     -> <<"settings">>

\* The version an operation is about: restores and visits take the current one.
About(c, r) == IF op[c].kind = "rollback" THEN op[c].v ELSE r.current

\* The store's setters: what they put, given the record they read.  The names, the owner's
\* scope and the default audience ("settings") are, like the time of the last visit, not kept here.
Edited(s, r, v, who) ==
    CASE s = "version"     -> [r EXCEPT !.versions = Append(@, who), !.current = Len(r.versions) + 1]
      [] s = "current"     -> [r EXCEPT !.current = v]
      [] s = "applied"     -> [r EXCEPT !.applied = v]
      [] s = "endpoint"    -> [r EXCEPT !.endpoint = TRUE]
      [] s = "withdrawn"   -> [r EXCEPT !.endpoint = FALSE]
      [] s = "running"     -> [r EXCEPT !.status = "running"]
      [] s = "archived"    -> [r EXCEPT !.status = "archived"]
      [] s \in {"touch", "settings"} -> r

Stmt(c)    == Head(op[c].todo)
Going(c)   == op[c].at \in {"locked", "open"} /\ op[c].todo # <<>>
Reading(c) == Going(c) /\ Stmt(c) \notin {"apply", "destroy"} /\ op[c].copy = NoApp
Writing(c) == Going(c) /\ op[c].copy # NoApp
NoSuchVersion(c) == Stmt(c) \in {"current", "applied"} /\ op[c].v > Len(op[c].copy.versions)

Done(c)     == [op[c] EXCEPT !.todo = Tail(@), !.copy = NoApp]
Over(c)     == [op[c] EXCEPT !.at = "over", !.todo = <<>>, !.copy = NoApp]
Freed(c)    == IF holder = c THEN NoHolder ELSE holder
Faulty      == deployFaults < MaxDeployFaults /\ deployFaults' = deployFaults + 1
-----------------------------------------------------------------------------
\* An owner publishes, rolls back, archives, restores, or edits a name under the lock.
Orders(c, kind, v) ==
    /\ op[c].at = "idle"
    /\ op' = [op EXCEPT ![c].at = "waits", ![c].kind = kind, ![c].v = v]
    /\ UNCHANGED <<app, holder, body, leftOver, settled, deployFaults>>

\* transferDeploymentOwner, and the rename a publication may begin with: setters without the lock.
Changes(c) ==
    /\ op[c].at = "idle"
    /\ op' = [op EXCEPT ![c].at = "open", ![c].kind = "change", ![c].todo = <<"settings">>]
    /\ UNCHANGED <<app, holder, body, leftOver, settled, deployFaults>>

\* Mutated form: the lock does not keep the processes apart.
FreeForAll == TRUE

\* The advisory lock of the deployment, behind the process's queue.
Free == holder = NoHolder

\* A restore of an app that runs has nothing to do.
NothingToDo(c) == op[c].kind = "restore" /\ app.status = "running"

\* withDeployLock: the operation reads the record and sets out.
Enters(c) ==
    /\ op[c].at = "waits" /\ op[c].kind # "visit" /\ Free /\ ~NothingToDo(c)
    /\ op[c].kind = "publish" => Len(app.versions) < MaxVersions
    /\ holder' = c
    /\ op' = [op EXCEPT ![c].at = "locked", ![c].todo = Program(op[c].kind), ![c].v = About(c, app)]
    /\ settled' = (settled /\ op[c].kind = "edit")
    /\ UNCHANGED <<app, body, leftOver, deployFaults>>

Returns(c) ==
    /\ op[c].at = "waits" /\ Free /\ NothingToDo(c)
    /\ op' = [op EXCEPT ![c] = Over(c)]
    /\ UNCHANGED <<app, holder, body, leftOver, settled, deployFaults>>

\* The lock was not to be had for five minutes: withLock throws.
GivesUp(c) ==
    /\ op[c].at = "waits" /\ ~Free
    /\ op' = [op EXCEPT ![c] = Over(c)]
    /\ UNCHANGED <<app, holder, body, leftOver, settled, deployFaults>>

Gets(c) ==
    /\ Reading(c)
    /\ op' = [op EXCEPT ![c].copy = app]
    /\ UNCHANGED <<app, holder, body, leftOver, settled, deployFaults>>

Puts(c) ==
    /\ Writing(c) /\ ~NoSuchVersion(c)
    /\ app' = Edited(Stmt(c), op[c].copy, op[c].v, c)
    /\ op' = [op EXCEPT ![c] = [Done(c) EXCEPT !.v = IF Stmt(c) = "version" THEN app'.current ELSE @]]
    /\ UNCHANGED <<holder, body, leftOver, settled, deployFaults>>

\* applyVersion: the provider brings the version up on the body it has, or on a new one.
Applies(c) ==
    /\ Going(c) /\ Stmt(c) = "apply"
    /\ body' = op[c].v
    /\ op' = [op EXCEPT ![c] = Done(c)]
    /\ UNCHANGED <<app, holder, leftOver, settled, deployFaults>>

\* The provider's destroy ends the body and drops the pointer to it, and keeps quiet when
\* either fails.  One of the two is enough: a pointer to a body that ended leads nowhere,
\* and nobody finds a body without its pointer.  When both fail the body goes on serving.
Destroys(c) ==
    /\ Going(c) /\ Stmt(c) = "destroy"
    /\ \/ body' = 0 /\ UNCHANGED deployFaults
       \/ body # 0 /\ UNCHANGED body /\ Faulty
    /\ leftOver' = (body' # 0)
    /\ op' = [op EXCEPT ![c] = Done(c)]
    /\ UNCHANGED <<app, holder, settled>>

\* What a client does when it has left the lock: a visit notes its time, and a publication
\* may set the default audience of the app.
Onward(c) ==
    IF c \in Visitors THEN {[op[c] EXCEPT !.at = "open", !.todo = <<"touch">>]}
    ELSE {Over(c)} \cup {j \in {[op[c] EXCEPT !.at = "open", !.todo = <<"settings">>]} : j.kind = "publish"}

\* The operation has ended, and with it the lock.
Leaves(c) ==
    /\ op[c].at = "locked" /\ op[c].todo = <<>>
    /\ holder' = NoHolder
    /\ settled' = (settled \/ op[c].kind \notin {"broken", "visit", "edit"})
    /\ \E j \in Onward(c) : op' = [op EXCEPT ![c] = j]
    /\ UNCHANGED <<app, body, leftOver, deployFaults>>

\* What is left of an operation of which a statement threw: a restore takes the app
\* down again, statement by statement, whichever of them throws.
Undone(c) ==
    CASE op[c].kind = "restore" -> [op[c] EXCEPT !.kind = "undo", !.todo = TakeDown, !.copy = NoApp]
      [] op[c].kind \in {"undo", "broken"} -> [Done(c) EXCEPT !.kind = "broken"]
      [] OTHER -> Over(c)

\* A statement throws: the provider may have got anywhere by then.
Throws(c) ==
    /\ Going(c) /\ op[c].copy = NoApp /\ Faulty
    /\ op' = [op EXCEPT ![c] = Undone(c)]
    /\ holder' = IF op'[c].at = "over" THEN Freed(c) ELSE holder
    /\ IF Stmt(c) = "apply" THEN body' \in {0, body, op[c].v} ELSE UNCHANGED body
    /\ UNCHANGED <<app, leftOver, settled>>

\* setCurrentVersion and setAppliedVersion refuse a version the record does not have.
Refuses(c) ==
    /\ Writing(c) /\ NoSuchVersion(c)
    /\ op' = [op EXCEPT ![c] = Undone(c)]
    /\ holder' = IF op'[c].at = "over" THEN Freed(c) ELSE holder
    /\ UNCHANGED <<app, body, leftOver, settled, deployFaults>>

\* The process dies, and the connection that holds its lock with it.  (That the connection
\* alone dies, and the operation goes on without its lock, is left out.)
CallerDies(c) ==
    /\ op[c].at \in {"locked", "open"} /\ Faulty
    /\ op' = [op EXCEPT ![c] = Over(c)]
    /\ holder' = Freed(c)
    /\ UNCHANGED <<app, body, leftOver, settled>>

\* The platform ends a body that has run for its time.
BodyEnds ==
    /\ body # 0 /\ Faulty
    /\ body' = 0
    /\ UNCHANGED <<app, holder, op, leftOver, settled>>
-----------------------------------------------------------------------------
\* reachDeployment, on a record read before the visitor's rights are looked up.
Visits(c) ==
    /\ op[c].at = "idle"
    /\ op' = [op EXCEPT ![c].at = IF app.status = "running" /\ app.endpoint THEN "reach" ELSE "over",
                        ![c].kind = "visit"]
    /\ UNCHANGED <<app, holder, body, leftOver, settled, deployFaults>>

\* resolveEndpoint tells of a body, by an endpoint that may be new, or of none.  It answers
\* from a cache that may be behind, and passes over a live body that is due to be replaced.
Resolves(c) ==
    /\ op[c].at = "reach"
    /\ \E p \in {<<"touch">>, <<"endpoint", "touch">>} :
         op' = [op EXCEPT ![c].at = "open", ![c].todo = p]
    /\ UNCHANGED <<app, holder, body, leftOver, settled, deployFaults>>

FindsNoBody(c) ==
    /\ op[c].at = "reach"
    /\ op' = [op EXCEPT ![c].at = "waits"]
    /\ UNCHANGED <<app, holder, body, leftOver, settled, deployFaults>>

\* Under the lock the visit reads the record and resolves again; when there is still
\* no body it applies the current version, whatever the status has become.
VisitEnters(c) ==
    /\ op[c].at = "waits" /\ op[c].kind = "visit" /\ Free
    /\ holder' = c
    /\ \E p \in {Place, <<>>, <<"endpoint">>} :
         /\ op' = [op EXCEPT ![c].at = "locked", ![c].todo = p, ![c].v = app.current]
         /\ settled' = (settled /\ p # Place)
    /\ UNCHANGED <<app, body, leftOver, deployFaults>>

\* A client that has nothing left to do without the lock; a rename may go on to publish.
Ends(c) ==
    /\ op[c].at = "open" /\ op[c].todo = <<>>
    /\ \/ op' = [op EXCEPT ![c] = Over(c)]
       \/ op[c].kind = "change" /\ op' = [op EXCEPT ![c].at = "waits", ![c].kind = "publish"]
    /\ UNCHANGED <<app, holder, body, leftOver, settled, deployFaults>>
-----------------------------------------------------------------------------
OwnerKinds == {"publish", "archive", "restore", "edit"}

DeployNext ==
    \/ \E c \in Owners :
         \/ \E kind \in OwnerKinds : Orders(c, kind, 0)
         \/ \E v \in Versions : Orders(c, "rollback", v)
         \/ Changes(c) \/ Enters(c) \/ Returns(c)
    \/ \E c \in Clients :
         \/ GivesUp(c) \/ Gets(c) \/ Puts(c) \/ Applies(c) \/ Destroys(c) \/ Leaves(c)
         \/ Throws(c) \/ Refuses(c) \/ CallerDies(c) \/ Ends(c)
    \/ \E c \in Visitors :
         Visits(c) \/ Resolves(c) \/ FindsNoBody(c) \/ VisitEnters(c)
    \/ BodyEnds

DeploySpec == DeployInit /\ [][DeployNext]_deployVars
-----------------------------------------------------------------------------
DeployTypeOK ==
    /\ app \in App /\ holder \in Clients \cup {NoHolder}
    /\ op \in [Clients -> [at : {"idle", "reach", "waits", "locked", "open", "over"},
                           kind : OwnerKinds \cup {"none", "rollback", "visit", "undo", "broken", "change"},
                           v : 0 .. MaxVersions, todo : Seq(Statements), copy : App \cup {NoApp}]]
    /\ body \in 0 .. MaxVersions /\ leftOver \in BOOLEAN /\ settled \in BOOLEAN /\ deployFaults \in 0 .. MaxDeployFaults

\* A setter that runs without the lock puts back a record that has changed since it was read.
StalePut == \E c \in Clients : op[c].at = "open" /\ op[c].copy # app /\ Puts(c)

\* Deploy versions are immutable: a version once in the record stays in it with the same
\* content.  The code keeps this only until a setter without the lock puts back a stale record; up to
\* then it is so whoever publishes, rolls back, renames, transfers, archives, fails or dies.
VersionsStand == [][IsPrefix(app.versions, app'.versions)]_deployVars

\* Once an operation under the lock has run to its end, a failed restore's clean-up
\* included, the record tells the truth (until a setter without the lock puts back a stale one): an
\* app that is running has an endpoint, and the body, if there is one, serves its current
\* version; an archived one has no body, unless the destroy that took it down could neither
\* end the body nor drop the pointer to it, which the provider keeps to itself.
RecordIsTrue ==
    holder = NoHolder /\ settled =>
        IF app.status = "running" THEN app.endpoint /\ app.applied = app.current /\ body \in {0, app.current}
                                  ELSE body = 0 \/ leftOver
=============================================================================
