-------------------------- MODULE ContainerManager --------------------------
(***************************************************************************)
(* The containers of the application (ContainerManager.java, Container.java*)
(* and the parts of FileUtils.java they use): directories xuser-N, each    *)
(* with a configuration file .container, and the manager's list of those   *)
(* it loaded.  The operations run one at a time (a dialog that cannot be   *)
(* cancelled is shown meanwhile), but each takes several steps on disk and *)
(* the application can be killed between any two of them.  A file is       *)
(* written by truncating it first, and a tree is deleted file by file.     *)
(***************************************************************************)
EXTENDS Integers, FiniteSets

CONSTANTS MaxId,     \* bound: the greatest N of a directory xuser-N
          MaxFaults  \* bound: kills, failed writes and deletes, refused data

ASSUME BoundAssumption == MaxId \in Nat /\ MaxFaults \in Nat

VARIABLES config,     \* .container of each xuser-N: see Configs
          complete,   \* the containers that were listed and lost no file since
          up,         \* the application runs and has a ContainerManager
          containers, \* the ids in its list
          maxContainerId,
          op,         \* the operation in progress
          faults      \* the faults so far

disk == <<config, complete>>
list == <<containers, maxContainerId>>
vars == <<disk, up, list, op, faults>>

Ids == 1 .. MaxId

\* No directory; a directory without the file; with a file that JSONObject or
\* loadData refuses; with one they accept.
Configs == {"noDir", "noFile", "bad", "good"}

Dirs == {n \in Ids : config[n] # "noDir"}
With(c) == {n \in Ids : config[n] = c}

\* over: xuser-id held a complete container before the operation began.
Idle == [kind |-> "none", step |-> "none", id |-> 0, src |-> 0, over |-> FALSE]
-----------------------------------------------------------------------------
Init == /\ config = [n \in Ids |-> "noDir"] /\ complete = {}
        /\ up = FALSE /\ containers = {} /\ maxContainerId = 0
        /\ op = Idle /\ faults = 0

IsMax(m, S) == m \in S \cup {0} /\ \A n \in S : n <= m

\* loadContainers walks the directories in any order.  The first file that is
\* not accepted ends the walk: what follows it is not loaded.
Load ==
    /\ ~up
    /\ \E S \in SUBSET With("good") :
         /\ With("noFile") \cup With("bad") = {} => S = With("good")
         /\ With("noFile") # {} => With("bad") # {}
         /\ containers' = S
         /\ IsMax(maxContainerId', S)
    /\ up' = TRUE
    /\ UNCHANGED <<disk, op, faults>>

\* A directory without the file makes readString throw NullPointerException
\* out of the constructor: the application ends.
LoadThrows == /\ ~up /\ With("noFile") # {}
              /\ UNCHANGED vars

\* The process is killed, the disk refuses the configuration being written or a
\* file being deleted, or a JSON object is refused.
Fault == faults < MaxFaults /\ faults' = faults + 1

Ends == /\ up' = FALSE /\ containers' = {} /\ maxContainerId' = 0 /\ op' = Idle
        /\ UNCHANGED disk

Kill == op # Idle /\ Fault /\ Ends

\* The application ends between two operations, and can be started again.
Quit == up /\ op = Idle /\ Ends /\ UNCHANGED faults
-----------------------------------------------------------------------------
NewId == maxContainerId + 1

Goto(step) == op' = [op EXCEPT !.step = step]
SetConfig(c) == config' = [config EXCEPT ![op.id] = c]

\* Mutant: a directory that is already there is taken, as importContainer does.
TakesAnyDir(kind) == NewId \in Ids

\* mkdirs fails for a directory that exists, and createContainer and
\* duplicateContainer give up then; importContainer asks isDirectory first.
MayTakeDir(kind) == NewId \in Ids /\ (kind = "import" \/ config[NewId] = "noDir")

\* The first steps of createContainer, duplicateContainer and importContainer.
Begin(kind, src) ==
    /\ up /\ op = Idle /\ MayTakeDir(kind)
    /\ op' = [kind |-> kind, step |-> "fill", id |-> NewId, src |-> src,
              over |-> NewId \in complete]
    /\ config' = IF config[NewId] = "noDir" THEN [config EXCEPT ![NewId] = "noFile"]
                                            ELSE config
    /\ UNCHANGED <<complete, up, list, faults>>

Create    == Begin("create", 0)
Import    == Begin("import", 0)
Duplicate == \E src \in containers : Begin("duplicate", src)

\* mkdirs or isDirectory refused: null is returned and nothing was changed.
GivesUp == /\ up /\ op = Idle /\ \E kind \in {"create", "import", "duplicate"} : ~MayTakeDir(kind)
           /\ UNCHANGED vars

\* The container pattern, the archive or the source's files are being written:
\* an archive may bring any configuration, a copy brings the source's.
Fill ==
    /\ op.step = "fill"
    /\ \E c \in CASE op.kind = "create"    -> {config[op.id]}
                  [] op.kind = "duplicate" ->
                       {config[op.id], config[op.src]} \cup
                         (IF config[op.src] = "noFile" THEN {} ELSE {"bad"})
                  [] OTHER                 -> {config[op.id], "bad", "good"} : SetConfig(c)
    /\ complete' = complete \ {op.id}
    /\ UNCHANGED <<up, list, op, faults>>

\* All of it is written; importContainer now wants a configuration it accepts.
Filled ==
    /\ op.step = "fill"
    /\ op.kind = "duplicate" => config[op.id] = config[op.src]
    /\ Goto(IF op.kind = "import" /\ config[op.id] # "good" THEN "delete" ELSE "save")
    /\ UNCHANGED <<disk, up, list, faults>>

\* extract, extractContainerPatternFile or copy returned false.
FillFails ==
    /\ op.step = "fill"
    /\ Goto("delete")
    /\ UNCHANGED <<disk, up, list, faults>>

\* A JSONException between mkdirs and the extraction: createContainer returns
\* null and leaves its directory there.
CreateThrows ==
    /\ op.kind = "create" /\ op.step = "fill" /\ Fault
    /\ op' = Idle
    /\ UNCHANGED <<disk, up, list>>

\* The user changes the settings of a container: Container.saveData.
Edit == /\ up /\ op = Idle
        /\ \E n \in containers : op' = [Idle EXCEPT !.kind = "edit", !.step = "save", !.id = n]
        /\ UNCHANGED <<disk, up, list, faults>>

\* FileUtils.writeString truncates the file, then writes it.
Truncate == /\ op.step = "save"
            /\ SetConfig("bad") /\ Goto("write")
            /\ UNCHANGED <<complete, up, list, faults>>

\* What comes after saveData: all but an edit register a new container.
AfterSave == op' = IF op.kind = "edit" THEN Idle ELSE [op EXCEPT !.step = "register"]

Write == /\ op.step = "write"
         /\ SetConfig("good") /\ AfterSave
         /\ UNCHANGED <<complete, up, list, faults>>

\* An IOException, of opening the file or of writing it, is printed and
\* forgotten; a JSONException of saveData, before the file is opened, as well.
WriteFails == /\ op.step \in {"save", "write"} /\ Fault
              /\ AfterSave
              /\ UNCHANGED <<disk, up, list>>

\* Mutants: the new id is not counted, or counted twice.
SameMaxId == maxContainerId
SkipsMaxId == maxContainerId + 2

NextMaxId == maxContainerId + 1

Register == /\ op.step = "register"
            /\ maxContainerId' = NextMaxId
            /\ containers' = containers \cup {op.id}
            /\ complete' = complete \cup {op.id}
            /\ op' = Idle
            /\ UNCHANGED <<config, up, faults>>
-----------------------------------------------------------------------------
\* removeContainer, and the clean-up of an operation that failed.
Remove == /\ up /\ op = Idle
          /\ \E n \in containers : op' = [Idle EXCEPT !.kind = "remove", !.step = "delete",
                                                      !.id = n]
          /\ UNCHANGED <<disk, up, list, faults>>

\* FileUtils.clear removes the files, the configuration among them.
DeleteFiles == /\ op.step = "delete" /\ config[op.id] # "noFile"
               /\ complete' = complete \ {op.id}
               /\ \/ SetConfig("noFile")
                  \/ op.id \in complete /\ UNCHANGED config
               /\ UNCHANGED <<up, list, op, faults>>

\* Mutant: the directory is gone but the container stays in the list.
KeepsRemoved == containers

WithoutRemoved == IF op.kind = "remove" THEN containers \ {op.id} ELSE containers

DeleteDir == /\ op.step = "delete" /\ config[op.id] = "noFile"
             /\ SetConfig("noDir") /\ complete' = complete \ {op.id}
             /\ containers' = WithoutRemoved
             /\ op' = Idle
             /\ UNCHANGED <<up, maxContainerId, faults>>

\* FileUtils.delete stops at the first file it cannot delete: removeContainer
\* keeps the container in its list, the others do not look at the result.
DeleteFails == /\ op.step = "delete" /\ Fault
               /\ op' = Idle
               /\ UNCHANGED <<disk, up, list>>
-----------------------------------------------------------------------------
Next == \/ Load \/ LoadThrows \/ Kill \/ Quit \/ GivesUp
        \/ Create \/ Import \/ Duplicate \/ Fill \/ Filled \/ FillFails \/ CreateThrows
        \/ Edit \/ Truncate \/ Write \/ WriteFails \/ Register
        \/ Remove \/ DeleteFiles \/ DeleteDir \/ DeleteFails

Spec == Init /\ [][Next]_vars
-----------------------------------------------------------------------------
Kinds == {"none", "create", "import", "duplicate", "edit", "remove"}
Steps == {"none", "fill", "save", "write", "register", "delete"}

\* Every variable has its type; an application that is down does nothing.
TypeOK == /\ config \in [Ids -> Configs] /\ complete \subseteq Ids
          /\ up \in BOOLEAN /\ containers \subseteq Ids
          /\ maxContainerId \in 0 .. MaxId /\ faults \in 0 .. MaxFaults
          /\ op \in [kind : Kinds, step : Steps, id : 0 .. MaxId, src : 0 .. MaxId,
                     over : BOOLEAN]
          /\ op = Idle \/ (up /\ op.kind # "none" /\ op.step # "none" /\ op.id \in Ids)

\* An operation that makes a container never works on one that is listed: its
\* id is above every listed one, so no two listed containers share a directory
\* and a failed creation never deletes a listed one.
NewIdsAreFree ==
    /\ \A n \in containers : n <= maxContainerId
    /\ op.kind \in {"create", "import", "duplicate"} => op.id \notin containers

\* A whole container, listed or not, loses files only when it is removed: no
\* creation that fails, and no id that a broken load makes look free, costs the
\* user another container.  Only an import into a directory that the load left
\* out of the list is not covered: see ImportIsNew.
WholeContainersStay ==
    [][\A n \in complete \ complete' :
          op.id = n /\ (op.kind = "remove" \/ (op.kind = "import" /\ n \notin containers))]_vars

\* The list is what is on disk between two operations, before and after a
\* restart: nothing half made is left behind and nothing listed is missing.
\* Excepted are the application's faults: once it was killed in an operation,
\* or a write or a delete of a file failed, or createContainer or saveData met
\* a JSONException, a half-made or half-deleted directory may stay.
ListMatchesDisk ==
    (faults = 0 /\ up /\ op = Idle) =>
        /\ containers = Dirs
        /\ \A n \in containers : config[n] = "good" /\ n \in complete

\* What the comment on importContainer says: it always makes a new container
\* and never opens an existing one for writing.
ImportIsNew == op.kind = "import" => ~op.over
=============================================================================
