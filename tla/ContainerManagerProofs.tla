----------------------- MODULE ContainerManagerProofs -----------------------
(***************************************************************************)
(* Theorems about ContainerManager for any number of directories and       *)
(* faults (kills, failed writes and deletes, refused JSON objects): its    *)
(* type invariant, that a new container never shares the directory of a    *)
(* listed one, that a whole container loses files only to its own removal, *)
(* and that without faults the list and the disk agree.                    *)
(***************************************************************************)
EXTENDS ContainerManager, TLAPS

Making == {"create", "import", "duplicate"}

\* Which steps an operation goes through, and what it works on: one that makes
\* a container on the id after the greatest, the others on a listed container.
OpShape ==
    /\ op.kind \in Making =>
         /\ op.step \in {"fill", "save", "write", "register", "delete"}
         /\ op.id = maxContainerId + 1
    /\ op.kind = "duplicate" => op.src \in containers
    /\ op.kind = "edit" => op.step \in {"save", "write"} /\ op.id \in containers
    /\ op.kind = "remove" => op.step = "delete" /\ op.id \in containers

\* The list stays below the greatest id.
ListBounded == \A n \in containers : n <= maxContainerId

\* A container that is whole, listed or worked on has a directory, so mkdirs
\* would have failed on it.
DirsAreThere ==
    /\ \A n \in complete \cup containers : config[n] # "noDir"
    /\ op # Idle => config[op.id] # "noDir"
    /\ op.kind \in {"create", "duplicate"} => op.id \notin complete

\* A directory that is listed and whole.
Sound(n) == config[n] = "good" /\ n \in complete

\* Without faults, only the directory that an operation works
\* on may be other than the list says, and never after its last step.
OnlyOpDiffers ==
    faults = 0 =>
      /\ \A n \in Dirs : n = op.id \/ Sound(n)
      /\ up => \A n \in Ids : n = op.id \/ (n \in containers <=> n \in Dirs)
      /\ op.kind = "edit" => op.id \in complete
      /\ op.step = "register" => config[op.id] = "good"

\* The inductive invariant.  ListMatchesDisk alone speaks of the moments
\* between operations; OnlyOpDiffers says what holds inside of them.
IInv == TypeOK /\ OpShape /\ ListBounded /\ DirsAreThere /\ OnlyOpDiffers
-----------------------------------------------------------------------------
\* The records an operation may be, and what an update of one is.
Ops == [kind : Kinds, step : Steps, id : 0 .. MaxId, src : 0 .. MaxId, over : BOOLEAN]

LEMMA IdleIsOp == Idle \in Ops
  BY BoundAssumption DEF Idle, Ops, Kinds, Steps

LEMMA GotoOp ==
    ASSUME NEW o \in Ops, NEW step \in Steps, NEW o2, o2 = [o EXCEPT !.step = step]
    PROVE  /\ o2 \in Ops /\ o2.step = step
           /\ o2.kind = o.kind /\ o2.id = o.id /\ o2.src = o.src
  BY DEF Ops

\* An operation on a listed container starts from Idle.
BegunOn(kind, step, n) == [Idle EXCEPT !.kind = kind, !.step = step, !.id = n]

LEMMA BegunOp ==
    ASSUME NEW kind \in Kinds, NEW step \in Steps, NEW n \in Ids
    PROVE  /\ BegunOn(kind, step, n) \in Ops
           /\ BegunOn(kind, step, n).kind = kind
           /\ BegunOn(kind, step, n).step = step
           /\ BegunOn(kind, step, n).id = n
<1>1. Idle \in Ops /\ n \in 0 .. MaxId
  BY IdleIsOp, BoundAssumption DEF Ids
<1> QED BY <1>1 DEF BegunOn, Ops

\* Which operations are in a step that fills, saves, registers or deletes.
LEMMA OpKinds ==
    ASSUME TypeOK, OpShape, ListBounded
    PROVE  /\ op.step \in {"fill", "register"} => op.kind \in Making
           /\ op.step \in {"save", "write"} => op.kind \in Making \cup {"edit"}
           /\ op.step = "delete" => op.kind \in Making \cup {"remove"}
           /\ op.kind \in Making => op.id \notin containers /\ op # Idle
           /\ op.step # "none" => op # Idle
<1>1. Idle.kind = "none" /\ Idle.step = "none" /\ op.kind \in Kinds
  BY DEF Idle, TypeOK
<1>2. op.kind = "none" => op.step = "none"
  BY <1>1 DEF TypeOK
<1>3. op.kind \in Making => op.id \notin containers
  <2>1. op.kind \in Making => op.id = maxContainerId + 1
    BY DEF OpShape
  <2>2. maxContainerId \in Int
    BY BoundAssumption DEF TypeOK
  <2> QED BY <2>1, <2>2 DEF ListBounded, TypeOK, Ids
<1> QED BY <1>1, <1>2, <1>3 DEF OpShape, Making, Kinds

LEMMA InitIInv == Init => IInv
<1> SUFFICES ASSUME Init PROVE IInv
  OBVIOUS
<1> USE DEF Init
<1>1. TypeOK
  <2>1. up \in BOOLEAN
    OBVIOUS
  <2>2. config \in [Ids -> Configs]
    BY DEF Configs
  <2> QED BY <2>1, <2>2, IdleIsOp, BoundAssumption DEF TypeOK, Ops
<1>2. OpShape /\ ListBounded /\ DirsAreThere /\ OnlyOpDiffers
  BY DEF OpShape, Making, Idle, ListBounded, DirsAreThere, OnlyOpDiffers, Dirs, Ids
<1> QED BY <1>1, <1>2 DEF IInv

\* What TypeOK says of the operation, in the words of the lemmas above.
LEMMA TypedOp == TypeOK => op \in Ops /\ (op # Idle => up /\ op.id \in Ids)
  BY DEF TypeOK, Ops

\* Nothing but the operation and, within its directory, the disk changes: the
\* list and the greatest id stay what they were.
LEMMA StepKeepsIInv == IInv /\ [Next]_vars => IInv'
<1> SUFFICES ASSUME IInv, [Next]_vars PROVE IInv'
  OBVIOUS
<1> USE DEF IInv, disk, list
<1>0. op \in Ops /\ Idle \in Ops /\ (op # Idle => up /\ op.id \in Ids)
  BY TypedOp, IdleIsOp
<1>idle. Idle.kind = "none" /\ Idle.step = "none" /\ Idle.id = 0
  BY DEF Idle
<1>1. CASE UNCHANGED vars
  BY <1>1 DEF vars, TypeOK, OpShape, ListBounded, DirsAreThere, OnlyOpDiffers,
               Dirs, Sound
<1>2. CASE Load
  <2> USE <1>2 DEF Load
  <2>1. op = Idle
    BY <1>0
  <2>2. containers' \subseteq Ids /\ IsMax(maxContainerId', containers')
        /\ \A n \in containers' : config[n] = "good"
    BY DEF With
  <2>3. TypeOK'
    BY <1>0, <2>1, <2>2, BoundAssumption DEF TypeOK, IsMax, Ids
  <2>4. OpShape' /\ ListBounded' /\ DirsAreThere'
    BY <1>idle, <2>1, <2>2 DEF OpShape, Making, ListBounded, DirsAreThere, IsMax
  <2>5. ASSUME faults = 0 PROVE containers' = Dirs
    <3>1. \A n \in Dirs : config[n] = "good"
      BY <1>idle, <2>1, <2>5 DEF OnlyOpDiffers, Sound, Dirs, Ids
    <3>2. With("noFile") \cup With("bad") = {} /\ With("good") = Dirs
      BY <3>1 DEF With, Dirs
    <3> QED BY <3>2
  <2>6. OnlyOpDiffers'
    BY <1>idle, <2>1, <2>5 DEF OnlyOpDiffers, Sound, Dirs, Ids
  <2> QED BY <2>3, <2>4, <2>6
<1>3. CASE Ends /\ (Fault \/ (up /\ op = Idle /\ UNCHANGED faults))
  <2> USE <1>3 DEF Ends, Fault
  <2>1. TypeOK'
    <3>1. up' \in BOOLEAN
      OBVIOUS
    <3>2. faults' \in 0 .. MaxFaults
      BY BoundAssumption DEF TypeOK
    <3> QED BY <1>0, <3>1, <3>2, BoundAssumption DEF TypeOK, Ops
  <2>2. OpShape' /\ ListBounded' /\ DirsAreThere'
    BY <1>idle DEF OpShape, Making, ListBounded, DirsAreThere
  <2>3. OnlyOpDiffers'
    BY <1>idle DEF OnlyOpDiffers, Sound, Dirs, Ids, TypeOK
  <2> QED BY <2>1, <2>2, <2>3
<1>4. ASSUME NEW kind \in Making, NEW src \in 0 .. MaxId, Begin(kind, src),
             kind = "duplicate" => src \in containers
      PROVE  IInv'
  <2> USE <1>4 DEF Begin
  <2>1. NewId \in Ids /\ NewId = maxContainerId + 1
    BY DEF MayTakeDir, NewId
  <2>2. op' \in Ops /\ op'.kind = kind /\ op'.step = "fill" /\ op'.id = NewId /\ op'.src = src
    BY <2>1 DEF Ops, Making, Kinds, Steps, Ids
  <2>3. config' \in [Ids -> Configs] /\ config'[NewId] # "noDir"
        /\ \A n \in Ids : n # NewId => config'[n] = config[n]
    BY <2>1 DEF TypeOK, Configs
  <2>4. TypeOK'
    BY <2>1, <2>2, <2>3 DEF TypeOK, Ops, Making
  <2>5. OpShape' /\ ListBounded'
    BY <2>1, <2>2 DEF OpShape, Making, ListBounded
  <2>6. DirsAreThere'
    BY <2>1, <2>2, <2>3 DEF DirsAreThere, MayTakeDir, TypeOK
  <2>7. OnlyOpDiffers'
    BY <1>idle, <2>1, <2>2, <2>3 DEF OnlyOpDiffers, Sound, Dirs, Making, TypeOK, Ids
  <2> QED BY <2>4, <2>5, <2>6, <2>7
<1>5. CASE Fill
  <2> USE <1>5 DEF Fill, SetConfig
  <2>1. op.kind \in Making /\ op.id \in Ids /\ op.id \notin containers
    BY <1>0, OpKinds
  <2>2. PICK c \in Configs : config' = [config EXCEPT ![op.id] = c] /\ c # "noDir"
    <3>1. config[op.id] \in Configs
      BY <2>1 DEF TypeOK
    <3>2. op.kind = "duplicate" => config[op.src] \in Configs \ {"noDir"}
      BY DEF OpShape, DirsAreThere, TypeOK
    <3>3. config[op.id] # "noDir"
      BY <2>1, OpKinds DEF DirsAreThere
    <3> QED BY <3>3, <3>1, <3>2 DEF Configs
  <2>3. TypeOK'
    BY <2>1, <2>2 DEF TypeOK
  <2>4. OpShape' /\ ListBounded'
    BY DEF OpShape, ListBounded
  <2>5. DirsAreThere'
    BY <2>1, <2>2 DEF DirsAreThere, TypeOK
  <2>6. OnlyOpDiffers'
    BY <2>1, <2>2 DEF OnlyOpDiffers, Sound, Dirs, TypeOK, Making
  <2> QED BY <2>3, <2>4, <2>5, <2>6
<1>6. CASE Filled \/ FillFails
  <2> USE <1>6 DEF Filled, FillFails, Goto
  <2>1. op.kind \in Making /\ op.id \in Ids /\ op.id \notin containers /\ op # Idle
    BY <1>0, OpKinds
  <2>2. /\ op' \in Ops /\ op'.step \in {"save", "delete"}
        /\ op'.kind = op.kind /\ op'.id = op.id /\ op'.src = op.src
    BY <1>0, GotoOp DEF Steps
  <2>3. TypeOK'
    BY <1>0, <2>1, <2>2 DEF TypeOK, Ops, Making
  <2>4. OpShape' /\ ListBounded' /\ DirsAreThere'
    BY <2>1, <2>2 DEF OpShape, Making, ListBounded, DirsAreThere
  <2>5. OnlyOpDiffers'
    BY <2>1, <2>2 DEF OnlyOpDiffers, Sound, Dirs, Making
  <2> QED BY <2>3, <2>4, <2>5
<1>7. ASSUME NEW n \in containers, up, op = Idle, UNCHANGED <<disk, up, list, faults>>,
             \/ op' = [Idle EXCEPT !.kind = "edit", !.step = "save", !.id = n]
             \/ op' = [Idle EXCEPT !.kind = "remove", !.step = "delete", !.id = n]
      PROVE  IInv'
  <2> USE <1>7
  <2>1. /\ op' \in Ops /\ op'.id = n /\ n \in Ids
        /\ \/ op'.kind = "edit" /\ op'.step = "save"
           \/ op'.kind = "remove" /\ op'.step = "delete"
    <3>1. n \in Ids
      BY DEF TypeOK
    <3>2. "edit" \in Kinds /\ "remove" \in Kinds /\ "save" \in Steps /\ "delete" \in Steps
      BY DEF Kinds, Steps
    <3>3. op' = BegunOn("edit", "save", n) \/ op' = BegunOn("remove", "delete", n)
      BY DEF BegunOn
    <3>4. CASE op' = BegunOn("edit", "save", n)
      BY <3>1, <3>2, <3>4, BegunOp
    <3>5. CASE op' = BegunOn("remove", "delete", n)
      BY <3>1, <3>2, <3>5, BegunOp
    <3> QED BY <3>1, <3>3, <3>4, <3>5
  <2>2. TypeOK'
    BY <2>1 DEF TypeOK, Ops
  <2>3. OpShape' /\ ListBounded' /\ DirsAreThere'
    BY <2>1 DEF OpShape, Making, ListBounded, DirsAreThere
  <2>4. OnlyOpDiffers'
    BY <1>idle, <2>1 DEF OnlyOpDiffers, Sound, Dirs, TypeOK, Ids
  <2> QED BY <2>2, <2>3, <2>4
<1>8. CASE Truncate
  <2> USE <1>8 DEF Truncate, Goto, SetConfig
  <2>1. op.id \in Ids /\ op.kind # "none"
    BY <1>0, <1>idle DEF TypeOK
  <2>2. /\ op' \in Ops /\ op'.step = "write"
        /\ op'.kind = op.kind /\ op'.id = op.id /\ op'.src = op.src
    BY <1>0, GotoOp DEF Steps
  <2>3. config' = [config EXCEPT ![op.id] = "bad"] /\ config' \in [Ids -> Configs]
    BY <2>1 DEF TypeOK, Configs
  <2>4. TypeOK'
    BY <1>0, <1>idle, <2>1, <2>2, <2>3 DEF TypeOK, Ops
  <2>5. OpShape' /\ ListBounded' /\ DirsAreThere'
    BY <2>1, <2>2, <2>3 DEF OpShape, Making, ListBounded, DirsAreThere, TypeOK
  <2>6. OnlyOpDiffers'
    BY <2>1, <2>2, <2>3 DEF OnlyOpDiffers, Sound, Dirs, TypeOK
  <2> QED BY <2>4, <2>5, <2>6
<1>9. CASE Write \/ WriteFails
  <2> USE <1>9
  <2>1. op.step \in {"save", "write"} /\ op.id \in Ids /\ op.kind # "none" /\ up
    BY <1>0, <1>idle DEF TypeOK, Write, WriteFails
  <2>2. /\ UNCHANGED <<complete, up, list>>
        /\ \/ config' = [config EXCEPT ![op.id] = "good"] /\ faults' = faults
           \/ config' = config /\ faults' = faults + 1 /\ faults < MaxFaults
    BY DEF Write, WriteFails, SetConfig, Fault
  <2>3. \/ op.kind = "edit" /\ op' = Idle
        \/ /\ op.kind \in Making
           /\ op' \in Ops /\ op'.step = "register"
           /\ op'.kind = op.kind /\ op'.id = op.id /\ op'.src = op.src
    <3>1. op.kind \in Making \cup {"edit"}
      BY <2>1 DEF OpShape, Making, Ops, Kinds, TypeOK
    <3>2. op.kind # "edit" => op' = [op EXCEPT !.step = "register"]
      BY DEF Write, WriteFails, AfterSave
    <3>3. op.kind = "edit" => op' = Idle
      BY DEF Write, WriteFails, AfterSave
    <3> QED BY <1>0, <3>1, <3>2, <3>3, GotoOp DEF Steps
  <2>4. config' \in [Ids -> Configs] /\ faults' \in 0 .. MaxFaults
    BY <2>1, <2>2, BoundAssumption DEF TypeOK, Configs
  <2>5. TypeOK'
    BY <1>0, <2>1, <2>2, <2>3, <2>4 DEF TypeOK, Ops, Making
  <2>6. OpShape' /\ ListBounded' /\ DirsAreThere'
    BY <1>idle, <2>1, <2>2, <2>3 DEF OpShape, Making, ListBounded, DirsAreThere, TypeOK
  <2>7. OnlyOpDiffers'
    BY <1>idle, <2>1, <2>2, <2>3 DEF OnlyOpDiffers, Sound, Dirs, TypeOK, Making, OpShape
  <2> QED BY <2>5, <2>6, <2>7
<1>10. CASE Register
  <2> USE <1>10 DEF Register, NextMaxId
  <2>1. op.kind \in Making /\ op.id \in Ids /\ op.id = maxContainerId + 1
    BY <1>0, OpKinds DEF OpShape
  <2>2. TypeOK'
    BY <1>0, <2>1 DEF TypeOK, Ids, Ops
  <2>3. OpShape' /\ ListBounded'
    BY <1>idle, <2>1 DEF OpShape, Making, ListBounded, TypeOK, Ids
  <2>4. config[op.id] # "noDir"
    BY <2>1, OpKinds DEF DirsAreThere
  <2>5. DirsAreThere'
    BY <1>idle, <2>4 DEF DirsAreThere
  <2>6. OnlyOpDiffers'
    BY <1>idle, <2>1, <2>4 DEF OnlyOpDiffers, Sound, Dirs
  <2> QED BY <2>2, <2>3, <2>5, <2>6
<1>11. CASE DeleteFiles
  <2> USE <1>11 DEF DeleteFiles, SetConfig
  <2>1. op.id \in Ids
    BY <1>0, <1>idle
  <2>2. /\ config' = config \/ config' = [config EXCEPT ![op.id] = "noFile"]
        /\ config' \in [Ids -> Configs]
    BY <2>1 DEF TypeOK, Configs
  <2>3. TypeOK'
    BY <2>2 DEF TypeOK
  <2>4. OpShape' /\ ListBounded' /\ DirsAreThere'
    BY <2>1, <2>2 DEF OpShape, ListBounded, DirsAreThere, TypeOK
  <2>5. OnlyOpDiffers'
    BY <2>1, <2>2 DEF OnlyOpDiffers, Sound, Dirs, TypeOK, OpShape, Making
  <2> QED BY <2>3, <2>4, <2>5
<1>12. CASE DeleteDir
  <2> USE <1>12 DEF DeleteDir, SetConfig, WithoutRemoved
  <2>1. op.id \in Ids
    BY <1>0, <1>idle
  <2>2. /\ config' = [config EXCEPT ![op.id] = "noDir"]
        /\ config' \in [Ids -> Configs]
    BY <2>1 DEF TypeOK, Configs
  <2>3. containers' \subseteq containers /\ op' = Idle
    OBVIOUS
  <2>4. TypeOK'
    BY <1>0, <2>2, <2>3 DEF TypeOK, Ops
  <2>5. op.id \notin containers'
    BY OpKinds
  <2>6. OpShape' /\ ListBounded' /\ DirsAreThere'
    BY <1>idle, <2>1, <2>2, <2>3, <2>5 DEF OpShape, Making, ListBounded, DirsAreThere, TypeOK
  <2>7. OnlyOpDiffers'
    BY <1>idle, <2>1, <2>2, <2>3, <2>5 DEF OnlyOpDiffers, Sound, Dirs, TypeOK
  <2> QED BY <2>4, <2>6, <2>7
<1>13. (LoadThrows \/ GivesUp) => UNCHANGED vars
  BY DEF LoadThrows, GivesUp
<1>14. (Kill \/ Quit) => Ends /\ (Fault \/ (up /\ op = Idle /\ UNCHANGED faults))
  BY DEF Kill, Quit
<1>15. CASE CreateThrows \/ DeleteFails
  <2> USE <1>15 DEF CreateThrows, DeleteFails, Fault
  <2>1. TypeOK'
    <3>1. faults' \in 0 .. MaxFaults
      BY BoundAssumption DEF TypeOK
    <3> QED BY <1>0, <3>1 DEF TypeOK, Ops
  <2>2. OpShape' /\ ListBounded' /\ DirsAreThere'
    BY <1>idle DEF OpShape, Making, ListBounded, DirsAreThere
  <2>3. OnlyOpDiffers'
    BY DEF OnlyOpDiffers, TypeOK
  <2> QED BY <2>1, <2>2, <2>3
<1>16. (Create \/ Import \/ Duplicate) => IInv'
  <2>1. "create" \in Making /\ "import" \in Making /\ "duplicate" \in Making
    BY DEF Making
  <2>2. 0 \in 0 .. MaxId /\ \A src \in containers : src \in 0 .. MaxId
    BY BoundAssumption DEF TypeOK, Ids
  <2> QED BY <1>4, <2>1, <2>2 DEF Create, Import, Duplicate
<1>17. (Edit \/ Remove) => IInv'
  BY <1>7 DEF Edit, Remove
<1> QED
  BY <1>1, <1>2, <1>3, <1>5, <1>6, <1>8, <1>9, <1>10, <1>11, <1>12, <1>13, <1>14,
     <1>15, <1>16, <1>17 DEF Next
-----------------------------------------------------------------------------
\* The parts of IInv hold in every reachable state.
THEOREM InductiveInvariant == Spec => []IInv
<1>1. Init => IInv
  BY InitIInv
<1>2. IInv /\ [Next]_vars => IInv'
  BY StepKeepsIInv
<1> QED BY <1>1, <1>2, PTL DEF Spec

\* Every variable has its type, and an application that is down does nothing.
THEOREM TypeCorrect == Spec => []TypeOK
<1>1. IInv => TypeOK
  BY DEF IInv
<1> QED BY <1>1, InductiveInvariant, PTL

\* createContainer, duplicateContainer and importContainer never work on a
\* container that is in the list, whatever was killed before.
THEOREM NewIdsFree == Spec => []NewIdsAreFree
<1>1. IInv => NewIdsAreFree
  BY OpKinds DEF IInv, NewIdsAreFree, ListBounded, Making
<1> QED BY <1>1, InductiveInvariant, PTL

\* Between two operations the list is what is on disk, as long as there was no
\* fault: no kill, no failed write or delete, no JSONException (loadContainers,
\* createContainer, removeContainer, saveData).
THEOREM ListIsDisk == Spec => []ListMatchesDisk
<1>1. IInv => ListMatchesDisk
  <2> SUFFICES ASSUME IInv, faults = 0, up, op = Idle
               PROVE  /\ containers = Dirs
                      /\ \A n \in containers : config[n] = "good" /\ n \in complete
    BY DEF ListMatchesDisk
  <2>1. \A n \in Ids : n # op.id
    BY DEF Idle, Ids
  <2>2. containers \subseteq Ids /\ Dirs \subseteq Ids
    BY DEF IInv, TypeOK, Dirs
  <2>3. \A n \in Ids : n \in containers <=> n \in Dirs
    BY <2>1 DEF IInv, OnlyOpDiffers
  <2>4. \A n \in Dirs : Sound(n)
    BY <2>1, <2>2 DEF IInv, OnlyOpDiffers
  <2> QED BY <2>2, <2>3, <2>4 DEF Sound
<1> QED BY <1>1, InductiveInvariant, PTL

\* A container that is whole loses a file only when it is removed, or when an
\* import writes over a directory that the load did not list.
THEOREM WholeStay == Spec => WholeContainersStay
<1>1. IInv /\ [Next]_vars =>
        [\A n \in complete \ complete' :
           op.id = n /\ (op.kind = "remove" \/ (op.kind = "import" /\ n \notin containers))]_vars
  <2> SUFFICES ASSUME IInv, [Next]_vars, NEW n \in complete \ complete'
               PROVE  op.id = n /\ (op.kind = "remove" \/ (op.kind = "import" /\ n \notin containers))
    OBVIOUS
  <2>1. complete' = complete \ {op.id} /\ op.step \in {"fill", "delete"}
    BY DEF Next, vars, disk, list, Load, LoadThrows, Kill, Quit, Ends, GivesUp, Create, Import,
           Duplicate, Begin, Fill, Filled, FillFails, CreateThrows, Edit, Truncate, Write, WriteFails,
           Register, Remove, DeleteFiles, DeleteDir, DeleteFails
  <2>2. op.kind \in Making \cup {"remove"}
    BY <2>1, OpKinds DEF IInv
  <2>3. n = op.id
    BY <2>1
  <2> QED BY <2>2, <2>3, OpKinds DEF IInv, DirsAreThere, Making
<1> QED BY <1>1, InductiveInvariant, PTL DEF Spec, WholeContainersStay
=============================================================================
