---------------------------- MODULE DeviceSupport ----------------------------
(***************************************************************************)
(* The device support from the start of the IOC on: ports, poll groups and *)
(* records are configured, records are initialized (S7nodaveRecord), and   *)
(* input records enter and leave the poll group that their address names   *)
(* when their SCAN field changes.  Commands of the shell may be given at   *)
(* any time, in any order.                                                 *)
(*                                                                         *)
(* How a record is processed and how a poll is done is in InputRecord,     *)
(* OutputRecord and MultiItemRead.  EPICS Base and asynManager are modelled*)
(* as the code uses them: the steps of iocInit, a SCAN field that goes back*)
(* to Passive if a record cannot be scanned, a record that is not processed*)
(* while PACT is set, asynUsers that exist until they are freed.  Operators whose names start with Buggy are variants,*)
(* with a bug, of the ones that they are named for.                        *)
(***************************************************************************)
EXTENDS RecordAddress

CONSTANTS Records,          \* the names of the records
          Configurations,   \* what a record may be configured to
          Spelling(_),      \* the letters and numbers of a word
          Ports,            \* the names given to s7nodaveConfigureIsoTcpPort
          ForeignPorts,     \* ports of other drivers, which exist from the beginning
          GroupNames        \* the names given to s7nodaveConfigurePollGroup

Groups == (Ports \union ForeignPorts) \X GroupNames
Owners == Records \union Groups   \* those that create an asynUser
Scans == {"Passive", "I/O Intr"}
IocStates == {"configuring", "initializing", "running", "paused"}
Steps == {"idle", "checking", "connecting", "finding", "failing", "freeing"}

ASSUME DeviceSupportAssumption ==
  /\ Records \intersect Groups = {}
  /\ PlcAddressWords = {w \in Words : Parse(Spelling(w)) # {}}
  /\ \A c \in Configurations : c.recordType \in RecordTypes /\ c.instIo \in BOOLEAN

VARIABLES
  config,       \* the configuration of each record
  ioc,          \* the state of the IOC
  ports,        \* the ports that have a PortDriver
  pollGroups,   \* the poll groups
  early,        \* those of them that are older than the first start of the IOC
  isStarted,    \* whether the poll groups have been started
  timers,       \* the poll groups whose timer runs
  step,         \* what initRecord, create or initRecordError does next for each of them
  myAsynUser,   \* the records and poll groups whose pointer to an asynUser is not null
  users,        \* those whose asynUser has been created and not freed, in asynManager
  connected,    \* those whose asynUser is connected to a port, in asynManager
  initialized,  \* the result of the initialization of each record
  pact,         \* the records with PACT set
  queued,       \* the records that have a request in the queue of their port
  scan,         \* the SCAN field of each record
  requesters,   \* the records that are registered with each poll group
  polling,      \* the requesters in the running poll of each poll group
  polled        \* the records that a poll has got an answer for since they were registered

iocVars == <<config, ioc, isStarted, timers, early>>
portVars == <<ports, pollGroups>>
recordVars == <<initialized, pact, queued>>
userVars == <<step, myAsynUser, users, connected>>
pollVars == <<scan, requesters, polling, polled>>
vars == <<iocVars, portVars, recordVars, userVars, pollVars>>

Init ==
  /\ config \in [Records -> Configurations]
  /\ ioc = "configuring" /\ isStarted = FALSE /\ timers = {} /\ early = {}
  /\ ports = {} /\ pollGroups = {}
  /\ step = [o \in Owners |-> "idle"] /\ myAsynUser = {} /\ users = {} /\ connected = {}
  /\ initialized = [r \in Records |-> "no"] /\ pact = {} /\ queued = {}
  /\ scan = [r \in Records |-> "Passive"]
  /\ requesters = [g \in Groups |-> {}]
  /\ polling = [g \in Groups |-> {}]
  /\ polled = {}

------------------------------------------------------------------------------
(***************************************************************************)
(* The asynUser of a record or a poll group.                               *)
(***************************************************************************)
GoTo(o, next) == step' = [step EXCEPT ![o] = next]

\* createAsynUser always succeeds.
CreateAsynUser(o, next) ==
  /\ step[o] = "idle"
  /\ GoTo(o, next)
  /\ users' = users \union {o} /\ myAsynUser' = myAsynUser \union {o}
  /\ UNCHANGED connected

PortOf == [c \in Configurations |-> ParseRecordAddress(c.address).portName]
Port(o) == IF o \in Records THEN PortOf[config[o]] ELSE o[1]

\* connectDevice fails if there is no port of that name.
ConnectDevice(o) ==
  /\ step[o] = "connecting"
  /\ \/ /\ Port(o) \in ports \union ForeignPorts
        /\ connected' = connected \union {o} /\ GoTo(o, "finding")
     \/ /\ Port(o) \notin ports \union ForeignPorts
        /\ GoTo(o, "failing") /\ UNCHANGED connected
  /\ UNCHANGED <<myAsynUser, users, iocVars, portVars, recordVars, pollVars>>

\* findInterface finds the interface of a PortDriver, and of no other driver.
HasInterface(o) == Port(o) \notin ForeignPorts

\* freeAsynUser disconnects the asynUser itself if it is still connected to a port.
FreeAsynUser(o) ==
  /\ step[o] = "freeing"
  /\ GoTo(o, "idle")
  /\ users' = users \ {o} /\ connected' = connected \ {o} /\ myAsynUser' = myAsynUser \ {o}
  /\ UNCHANGED <<iocVars, portVars, recordVars, pollVars>>

------------------------------------------------------------------------------
(***************************************************************************)
(* Ports and poll groups.  A poll group is created under the static mutex, *)
(* which find and startPollGroups wait for.                                *)
(***************************************************************************)
\* A name that is taken cannot be registered; the new driver is deleted again.
ConfigureIsoTcpPort(port) ==
  /\ port \notin ports \union ForeignPorts
  /\ ports' = ports \union {port}
  /\ UNCHANGED <<pollGroups, iocVars, recordVars, userVars, pollVars>>

StaticMutexIsFree == \A g \in Groups : step[g] = "idle"

\* A second poll group of the same name is refused.
CreatePollGroup(g) ==
  /\ StaticMutexIsFree /\ g \notin pollGroups
  /\ CreateAsynUser(g, "connecting")
  /\ UNCHANGED <<iocVars, portVars, recordVars, pollVars>>

\* initAsyn disconnects from a port without the interface; create drops the poll group then.
InsertPollGroup(g) ==
  /\ step[g] = "finding"
  /\ \/ /\ HasInterface(g)
        /\ pollGroups' = pollGroups \union {g}
        /\ early' = IF isStarted THEN early ELSE early \union {g}
        /\ GoTo(g, "idle") /\ UNCHANGED connected
     \/ /\ ~HasInterface(g)
        /\ connected' = connected \ {g} /\ GoTo(g, "failing")
        /\ UNCHANGED <<pollGroups, early>>
  /\ UNCHANGED <<myAsynUser, users, ports, config, ioc, isStarted, timers, recordVars, pollVars>>

\* The destructor disconnects in any case, which fails without harm if there is no port.
DestroyPollGroup(g) ==
  /\ step[g] = "failing"
  /\ connected' = connected \ {g} /\ GoTo(g, "freeing")
  /\ UNCHANGED <<myAsynUser, users, iocVars, portVars, recordVars, pollVars>>

------------------------------------------------------------------------------
(***************************************************************************)
(* Initialization of a record.                                             *)
(***************************************************************************)
Given(parameters, name) == {p \in parameters : p.name = <<name>> /\ p.value # {}}

\* extractDeviceParameters removes the parameters that a class knows, if they are complete.
Extracted(class, parameters) ==
  LET limits == Given(parameters, "DLV") \union Given(parameters, "DHV")
  IN (IF "PG" \in class.parameters THEN Given(parameters, "PG") ELSE {})
       \union (IF "DLV" \in class.parameters
                  /\ Given(parameters, "DLV") # {} /\ Given(parameters, "DHV") # {}
               THEN limits ELSE {})

\* The data types that the record uses for a PLC address: there is at most one.
DataTypes(c, plcAddress, requested) ==
  {t \in GetPlcDataType(c.recordType, c.ftvl, plcAddress.dataSize, requested) :
     CreateRecordAddress(c.address, plcAddress.dataSize, t)}

\* Everything that initRecord checks before it connects to the port.
AddressIsUsable(c, result) ==
  /\ c.instIo /\ c.address # <<>>
  /\ result.valid
  /\ \A parameters \in result.parameters :
       parameters \subseteq Extracted(ClassOf[c.recordType], parameters)
  /\ \E word \in result.plcAddress : \E plcAddress \in Parse(Spelling(word)) :
       DataTypes(c, plcAddress, result.plcDataType) # {}

Usable == {c \in Configurations : AddressIsUsable(c, ParseRecordAddress(c.address))}

\* The name of the poll group is "default" unless the address has another one.
PollGroupName(parameters) ==
  LET given == UNION {p.value : p \in Given(parameters, "PG")}
  IN IF given = {} THEN <<"default">> ELSE CHOOSE name \in given : TRUE
GroupOf ==
  [c \in Configurations |->
     <<PortOf[c], PollGroupName(UNION ParseRecordAddress(c.address).parameters)>>]

IocInit ==
  /\ ioc = "configuring"
  /\ ioc' = "initializing"
  /\ UNCHANGED <<config, isStarted, timers, early, portVars, recordVars, userVars, pollVars>>

\* Records are initialized one after the other.
InitRecord(r) ==
  /\ ioc = "initializing" /\ initialized[r] = "no"
  /\ \A q \in Records : step[q] = "idle"
  /\ CreateAsynUser(r, "checking")
  /\ UNCHANGED <<iocVars, portVars, recordVars, pollVars>>

CheckAddress(r) ==
  /\ step[r] = "checking"
  /\ GoTo(r, IF config[r] \in Usable THEN "connecting" ELSE "failing")
  /\ UNCHANGED <<myAsynUser, users, connected, iocVars, portVars, recordVars, pollVars>>

FindInterfaces(r) ==
  /\ step[r] = "finding"
  /\ \/ /\ HasInterface(r)
        /\ initialized' = [initialized EXCEPT ![r] = "yes"] /\ GoTo(r, "idle")
     \/ /\ ~HasInterface(r)
        /\ GoTo(r, "failing") /\ UNCHANGED initialized
  /\ UNCHANGED <<pact, queued, myAsynUser, users, connected, iocVars, portVars, pollVars>>

\* A record that fails keeps PACT set forever, so that it is never processed.
BuggyPactAfter(r) == pact
PactAfter(r) == pact \union {r}

\* isConnected tells whether the port is connected to its PLC, which may change at any time.
ConnectionsOf(o) == IF o \in connected THEN BOOLEAN ELSE {FALSE}

\* The asynUser is disconnected if it is connected, and freed in any case.
BuggyCleanUp(isConnected) == IF isConnected THEN "freeing" ELSE "idle"
CleanUp(isConnected) == "freeing"

InitRecordError(r) ==
  /\ step[r] = "failing"
  /\ initialized' = [initialized EXCEPT ![r] = "failed"]
  /\ pact' = PactAfter(r)
  /\ \E isConnected \in ConnectionsOf(r) :
       /\ connected' = IF isConnected THEN connected \ {r} ELSE connected
       /\ GoTo(r, CleanUp(isConnected))
  /\ UNCHANGED <<queued, myAsynUser, users, iocVars, portVars, pollVars>>

AllInitialized == \A r \in Records : initialized[r] # "no" /\ step[r] = "idle"

\* Poll groups are started once; those that are created later are not.
BuggyStarted(isStartedAlready) ==
  IF isStartedAlready THEN timers ELSE {g \in pollGroups : g[2] = <<"default">>}
Started(isStartedAlready) == IF isStartedAlready THEN timers ELSE timers \union pollGroups

\* The hook is called when the IOC runs for the first time, and after every pause.
AfterIocRunning ==
  /\ ioc = "paused" \/ (ioc = "initializing" /\ AllInitialized)
  /\ StaticMutexIsFree
  /\ ioc' = "running"
  /\ timers' = Started(isStarted)
  /\ isStarted' = TRUE
  /\ UNCHANGED <<config, early, portVars, recordVars, userVars, pollVars>>

IocPause ==
  /\ ioc = "running"
  /\ ioc' = "paused"
  /\ UNCHANGED <<config, isStarted, timers, early, portVars, recordVars, userVars, pollVars>>

------------------------------------------------------------------------------
(***************************************************************************)
(* Processing and scanning of records.                                     *)
(***************************************************************************)
Process(r) ==
  /\ ioc = "running"
  /\ r \notin pact
  /\ pact' = pact \union {r}
  /\ queued' = queued \union {r}
  /\ UNCHANGED <<initialized, iocVars, portVars, userVars, pollVars>>

Complete(r) ==
  /\ r \in queued
  /\ pact' = pact \ {r}
  /\ queued' = queued \ {r}
  /\ UNCHANGED <<initialized, iocVars, portVars, userVars, pollVars>>

\* The tables of output records have no get_ioint_info.
HasIoIntInfo(c) == \E device \in Devices : device.recordType = c.recordType /\ device.getIoIntInfo

\* getIoIntInfoRecord fails for a record that has no asynUser or no poll group.
BuggyCanBeScanned(r) == HasIoIntInfo(config[r]) /\ GroupOf[config[r]] \in pollGroups
CanBeScanned(r) ==
  HasIoIntInfo(config[r]) /\ r \in myAsynUser /\ GroupOf[config[r]] \in pollGroups

\* SCAN is set to "I/O Intr", in the configuration or later: command 0 registers the record.
ScanAdd(r) ==
  /\ AllInitialized /\ ioc # "configuring" /\ scan[r] = "Passive"
  /\ StaticMutexIsFree /\ CanBeScanned(r)
  /\ scan' = [scan EXCEPT ![r] = "I/O Intr"]
  /\ requesters' = [requesters EXCEPT ![GroupOf[config[r]]] = @ \union {r}]
  /\ polled' = polled \ {r}
  /\ UNCHANGED <<polling, iocVars, portVars, recordVars, userVars>>

\* SCAN is set to something else: command 1 removes it.
ScanDelete(r) ==
  /\ StaticMutexIsFree /\ scan[r] = "I/O Intr"
  /\ scan' = [scan EXCEPT ![r] = "Passive"]
  /\ requesters' = IF CanBeScanned(r)
                   THEN [requesters EXCEPT ![GroupOf[config[r]]] = @ \ {r}] ELSE requesters
  /\ UNCHANGED <<polling, polled, iocVars, portVars, recordVars, userVars>>

\* The timer of a poll group expires.  A copy of the requesters is made; they may change
\* during the transfer.
Expire(g) ==
  /\ g \in timers
  /\ polling[g] = {} /\ requesters[g] # {}
  /\ polling' = [polling EXCEPT ![g] = requesters[g]]
  /\ UNCHANGED <<scan, requesters, polled, iocVars, portVars, recordVars, userVars>>

\* Every requester gets an answer, and the timer is started again.
Respond(g) ==
  /\ polling[g] # {}
  /\ polled' = polled \union polling[g]
  /\ polling' = [polling EXCEPT ![g] = {}]
  /\ UNCHANGED <<scan, requesters, iocVars, portVars, recordVars, userVars>>

------------------------------------------------------------------------------
FinishPollGroup(g) ==
  ConnectDevice(g) \/ InsertPollGroup(g) \/ DestroyPollGroup(g) \/ FreeAsynUser(g)

InitializeRecord(r) ==
  \/ InitRecord(r) \/ CheckAddress(r) \/ ConnectDevice(r) \/ FindInterfaces(r)
  \/ InitRecordError(r) \/ FreeAsynUser(r)

Next ==
  \/ \E port \in Ports : ConfigureIsoTcpPort(port)
  \/ \E g \in Groups : CreatePollGroup(g) \/ FinishPollGroup(g)
  \/ IocInit
  \/ AfterIocRunning
  \/ IocPause
  \/ \E r \in Records :
       InitializeRecord(r) \/ Process(r) \/ Complete(r) \/ ScanAdd(r) \/ ScanDelete(r)
  \/ \E g \in Groups : Expire(g) \/ Respond(g)

\* iocInit, once begun, goes on, a paused IOC is resumed, and timers expire.  A poll group
\* whose creation has begun gets finished, and startPollGroups gets the static mutex at last,
\* since the commands of a shell leave it free most of the time.
Fairness ==
  /\ SF_vars(AfterIocRunning)
  /\ WF_vars(\E r \in Records : InitializeRecord(r))
  /\ WF_vars(\E g \in Groups : FinishPollGroup(g))
  /\ \A g \in Groups : WF_vars(Expire(g) \/ Respond(g))

Spec == Init /\ [][Next]_vars /\ Fairness

------------------------------------------------------------------------------
(***************************************************************************)
(* Properties.                                                             *)
(***************************************************************************)
TypeOK ==
  /\ config \in [Records -> Configurations]
  /\ ioc \in IocStates /\ isStarted \in BOOLEAN
  /\ ports \subseteq Ports /\ pollGroups \subseteq Groups
  /\ early \subseteq pollGroups /\ timers \subseteq pollGroups
  /\ step \in [Owners -> Steps]
  /\ myAsynUser \subseteq Owners /\ users \subseteq Owners /\ connected \subseteq Owners
  /\ initialized \in [Records -> {"no", "yes", "failed"}]
  /\ pact \subseteq Records /\ queued \subseteq Records /\ polled \subseteq Records
  /\ scan \in [Records -> Scans]
  /\ requesters \in [Groups -> SUBSET Records] /\ polling \in [Groups -> SUBSET Records]

\* A poll group knows exactly the records whose SCAN field is "I/O Intr" and whose address
\* names it, and these are initialized input records on the port of the poll group,
\* whatever has been configured in which order and however often SCAN has been changed.
OnlyUsableRecordsAreRegistered ==
  \A g \in Groups :
    /\ requesters[g] = {r \in Records : scan[r] = "I/O Intr" /\ GroupOf[config[r]] = g}
    /\ \A r \in requesters[g] :
         initialized[r] = "yes" /\ r \in connected /\ config[r].recordType \in InputTypes

\* Whatever fails during a configuration or an initialization, and whether or not the PLC is
\* connected at that time: what has failed leaves no asynUser, no connection of one to a port
\* and no pointer to one behind, and what exists and is initialized has all three.
HasSucceeded(o) == IF o \in Records THEN initialized[o] = "yes" ELSE o \in pollGroups
AsynUsersBalanced ==
  \A o \in Owners : step[o] = "idle" =>
    /\ o \in users <=> HasSucceeded(o)
    /\ o \in connected <=> HasSucceeded(o)
    /\ o \in myAsynUser <=> HasSucceeded(o)

\* A request is only queued with an asynUser that is connected: a record whose
\* initialization has failed is never processed, although its dpvt is set.
OnlyConnectedUsersAreQueued == queued \subseteq connected

\* A record in a poll group that is older than the IOC's first start is polled, or removed
\* from the poll group, once iocInit has been called.
RegisteredRecordsArePolled ==
  \A r \in Records :
    ioc # "configuring" /\ scan[r] = "I/O Intr" /\ GroupOf[config[r]] \in early
      ~> r \in polled \/ scan[r] = "Passive"
=============================================================================
