------------------------------- MODULE Service -------------------------------
(***************************************************************************)
(* cmd/service: the life of the service processes on one database.  A      *)
(* process asks the node for prices, creates the master key if there is    *)
(* none, starts the parts its mode names, and on a signal stops them one   *)
(* after the other, within a deadline.  A process that exited may be       *)
(* started again.                                                          *)
(*                                                                         *)
(* The parts are the HTTP server, the subscriber, the gas oracle's updater *)
(* and the River client with one job at a time.                            *)
(***************************************************************************)
EXTENDS GasOracle

CONSTANT Mode    \* service.mode of each process

ASSUME ModeAssumption ==
    Mode \in [Processes -> {"worker", "api", "sub", "standalone"}]

VARIABLES
    main,        \* where main is
    closer,      \* where the goroutine is that stops the parts, "none" before
    subUp,       \* the subscriber's goroutine has not ended
    working,     \* a job is being worked
    fetching,    \* the River client fetches jobs
    expired,     \* the graceful period is over
    masterKeys,  \* rows of master_key
    raced,       \* history: two processes had the key's insert open at once
    keyLost      \* history: a commit of Bootstrap failed, or its process did

lifeVars == <<main, closer, subUp, working, fetching, expired>>
keyVars == <<masterKeys, raced, keyLost>>
serviceVars == <<gasVars, lifeVars, keyVars>>

HasWorkers(p) == Mode[p] \in {"worker", "standalone"}
HasSub(p) == Mode[p] \in {"sub", "standalone"}
HasAPI(p) == Mode[p] \in {"api", "standalone"}
HasPrices(p) == Mode[p] # "sub"

Workers == {p \in Processes : HasWorkers(p)}

Exited == {"exit 0", "exit 1"}
Up == {"running", "stopping"}

MainAt(p, place) == main[p] = place
GoMain(p, place) == main' = [main EXCEPT ![p] = place]
GoCloser(p, place) == closer' = [closer EXCEPT ![p] = place]

Init ==
    /\ GasInit
    /\ main = [p \in Processes |-> "down"]
    /\ closer = [p \in Processes |-> "none"]
    /\ subUp = [p \in Processes |-> FALSE]
    /\ working = [p \in Processes |-> FALSE]
    /\ fetching = [p \in Processes |-> FALSE]
    /\ expired = [p \in Processes |-> FALSE]
    /\ masterKeys = 0
    /\ raced = FALSE
    /\ keyLost = FALSE
----------------------------------------------------------------------------
(* Start.                                                                  *)

(* The process is started, for the first time or again; a job it left      *)
(* unfinished is River's now.  loadGasOracle: an oracle is created with    *)
(* the prices of the moment.                                               *)
LoadGasOracle(p) ==
    /\ main[p] \in Exited \cup {"down"}
    /\ IF HasPrices(p)
       THEN /\ feeCap' = [feeCap EXCEPT ![p] = now]
            /\ tipCap' = [tipCap EXCEPT ![p] = now]
       ELSE UNCHANGED <<feeCap, tipCap>>
    /\ GoMain(p, "bootstrap")
    /\ subUp' = [subUp EXCEPT ![p] = FALSE]
    /\ working' = [working EXCEPT ![p] = FALSE]
    /\ expired' = [expired EXCEPT ![p] = FALSE]
    /\ UNCHANGED <<now, updater, reader, tx, faults, closer, fetching, keyVars>>

(* Bootstrap: LoadMasterSignerKey finds a committed key, or none.          *)
LoadMasterSignerKey(p) ==
    /\ MainAt(p, "bootstrap")
    /\ GoMain(p, IF masterKeys > 0 THEN "start" ELSE "insert")
    /\ UNCHANGED <<gasVars, closer, subUp, working, fetching, expired, keyVars>>

(* Mutant: the key is inserted without looking again.                      *)
InsertMasterKeyAlways(p) ==
    /\ MainAt(p, "insert")
    /\ GoMain(p, "commit")
    /\ raced' = (raced \/ \E q \in Processes : main[q] = "commit")
    /\ UNCHANGED <<gasVars, closer, subUp, working, fetching, expired, masterKeys, keyLost>>

(* BootstrapMasterKey inserts unless it sees a key, and it sees those that *)
(* are committed.                                                          *)
BootstrapMasterKey(p) ==
    /\ MainAt(p, "insert")
    /\ GoMain(p, IF masterKeys > 0 THEN "start" ELSE "commit")
    /\ raced' = (raced \/ (masterKeys = 0 /\ \E q \in Processes : main[q] = "commit"))
    /\ UNCHANGED <<gasVars, closer, subUp, working, fetching, expired, masterKeys, keyLost>>

(* The deferred commit, whose error nobody looks at.                       *)
CommitBootstrap(p) ==
    /\ MainAt(p, "commit")
    /\ GoMain(p, "start")
    /\ \/ masterKeys' = masterKeys + 1 /\ UNCHANGED <<faults, keyLost>>
       \/ Fault /\ keyLost' = TRUE /\ UNCHANGED masterKeys
    /\ UNCHANGED <<now, oracleVars, reader, tx, closer, subUp, working, fetching,
                   expired, raced>>

(* Mutant: whether there are workers is not asked.                         *)
StartPartsAlways(p) ==
    /\ MainAt(p, "start")
    /\ GoMain(p, "running")
    /\ subUp' = [subUp EXCEPT ![p] = HasSub(p)]
    /\ updater' = [updater EXCEPT ![p] = Waiting]
    /\ fetching' = [fetching EXCEPT ![p] = HasWorkers(p)]
    /\ UNCHANGED <<now, feeCap, tipCap, reader, tx, faults, closer, working, expired, keyVars>>

(* The goroutines are started; an error of the River client's Start is     *)
(* dropped, and the process goes on without it.  Only a process with       *)
(* workers starts the oracle's updater.                                    *)
StartParts(p) ==
    /\ MainAt(p, "start")
    /\ GoMain(p, "running")
    /\ subUp' = [subUp EXCEPT ![p] = HasSub(p)]
    /\ updater' = [updater EXCEPT ![p] = IF HasWorkers(p) THEN Waiting ELSE Off]
    /\ \/ fetching' = [fetching EXCEPT ![p] = HasWorkers(p)] /\ UNCHANGED faults
       \/ HasWorkers(p) /\ Fault /\ UNCHANGED fetching
    /\ UNCHANGED <<now, feeCap, tipCap, reader, tx, closer, working, expired, keyVars>>

(* os.Exit: nothing of the process goes on.                                *)
Exit(p, code) ==
    /\ main' = [main EXCEPT ![p] = code]
    /\ feeCap' = [feeCap EXCEPT ![p] = 0]
    /\ tipCap' = [tipCap EXCEPT ![p] = 0]
    /\ updater' = [updater EXCEPT ![p] = Off]
    /\ reader' = [reader EXCEPT ![p] = 0]
    /\ closer' = [closer EXCEPT ![p] = "none"]
    /\ UNCHANGED <<now, tx, subUp, expired, masterKeys, raced>>

(* An error while starting, or the HTTP server fails.                      *)
FailStart(p) ==
    /\ Fault
    /\ MainAt(p, "bootstrap") \/ MainAt(p, "insert") \/ MainAt(p, "start")
       \/ (MainAt(p, "running") /\ HasAPI(p))
    /\ Exit(p, "exit 1")
    /\ fetching' = [fetching EXCEPT ![p] = FALSE]
    /\ UNCHANGED <<working, keyLost>>
----------------------------------------------------------------------------
(* Work.                                                                   *)

(* Refreshes and signatures happen in a process whose parts are up.        *)
UseOracle(p) ==
    /\ main[p] \in Up
    /\ \/ updateGasPrice(p)
       \/ NoAnswer(p)
       \/ ReadCap(p)
       \/ Sign(p)
       \/ HasWorkers(p) /\ Resign(p)
    /\ UNCHANGED <<lifeVars, keyVars>>

WorkJob(p) ==
    /\ fetching[p] /\ ~working[p]
    /\ working' = [working EXCEPT ![p] = TRUE]
    /\ UNCHANGED <<gasVars, main, closer, subUp, fetching, expired, keyVars>>

(* The job ends, completed or cancelled by the context it was given.       *)
EndJob(p) ==
    /\ main[p] \in Up /\ working[p]
    /\ working' = [working EXCEPT ![p] = FALSE]
    /\ UNCHANGED <<gasVars, main, closer, subUp, fetching, expired, keyVars>>
----------------------------------------------------------------------------
(* Stop.                                                                   *)

(* SIGTERM.  The River client was started with the context the signal      *)
(* cancels, so that it stops fetching at once.                             *)
Signal(p) ==
    /\ MainAt(p, "running")
    /\ GoMain(p, "stopping")
    /\ GoCloser(p, "sub")
    /\ fetching' = [fetching EXCEPT ![p] = FALSE]
    /\ UNCHANGED <<gasVars, subUp, working, expired, keyVars>>

(* subComponent.Close, or the connection to NATS is closed.                *)
CloseSub(p) ==
    /\ closer[p] = "sub" /\ MainAt(p, "stopping")
    /\ GoCloser(p, "api")
    /\ UNCHANGED <<gasVars, main, subUp, working, fetching, expired, keyVars>>

(* Process ends once the event in hand is processed.                       *)
EndSub(p) ==
    /\ MainAt(p, "stopping") /\ closer[p] # "sub"
    /\ subUp[p]
    /\ subUp' = [subUp EXCEPT ![p] = FALSE]
    /\ UNCHANGED <<gasVars, main, closer, working, fetching, expired, keyVars>>

(* apiComponent.Stop waits for open requests or for the deadline.          *)
StopAPI(p) ==
    /\ closer[p] = "api" /\ MainAt(p, "stopping")
    /\ GoCloser(p, IF HasWorkers(p) THEN "oracle" ELSE "done")
    /\ UNCHANGED <<gasVars, main, subUp, working, fetching, expired, keyVars>>

(* gasOracle.Stop hands its signal to the updater, which must be waiting.  *)
StopOracle(p) ==
    /\ closer[p] = "oracle" /\ MainAt(p, "stopping")
    /\ UpdaterAt(p, "select")
    /\ updater' = [updater EXCEPT ![p] = Off]
    /\ GoCloser(p, "workers")
    /\ UNCHANGED <<now, feeCap, tipCap, reader, tx, faults, main, subUp, working,
                   fetching, expired, keyVars>>

(* Mutant: the River client's Stop is not waited for.                      *)
StopWorkersAsync(p) ==
    /\ closer[p] = "workers" /\ MainAt(p, "stopping")
    /\ GoCloser(p, "done")
    /\ UNCHANGED <<gasVars, main, subUp, working, fetching, expired, keyVars>>

(* workerComponent.Stop waits for running jobs or for the deadline, and    *)
(* its error is dropped.                                                   *)
StopWorkers(p) ==
    /\ closer[p] = "workers" /\ MainAt(p, "stopping")
    /\ ~working[p] \/ expired[p]
    /\ GoCloser(p, "done")
    /\ UNCHANGED <<gasVars, main, subUp, working, fetching, expired, keyVars>>

(* Mutant: the shutdown has no deadline.                                   *)
NoDeadline(p) == FALSE /\ UNCHANGED serviceVars

(* The graceful period is over.                                            *)
Deadline(p) ==
    /\ MainAt(p, "stopping") /\ ~expired[p]
    /\ expired' = [expired EXCEPT ![p] = TRUE]
    /\ UNCHANGED <<gasVars, main, closer, subUp, working, fetching, keyVars>>

(* wg.Wait has returned.                                                   *)
AllStopped(p) == MainAt(p, "stopping") /\ closer[p] = "done" /\ ~subUp[p]

(* The goroutine that waited cancels the context and exits with 0.  The    *)
(* cancelled context wakes main, which exits with 1, if it is faster.      *)
ExitStopped(p) ==
    /\ AllStopped(p)
    /\ \E code \in Exited : Exit(p, code)
    /\ UNCHANGED <<faults, fetching, working, keyLost>>

(* main sees that the deadline has passed.                                 *)
ExitForced(p) ==
    /\ MainAt(p, "stopping") /\ expired[p]
    /\ Exit(p, "exit 1")
    /\ UNCHANGED <<faults, fetching, working, keyLost>>

(* The process is killed at any time.                                      *)
Kill(p) ==
    /\ Fault
    /\ main[p] \notin Exited \cup {"down"}
    /\ Exit(p, "exit 1")
    /\ fetching' = [fetching EXCEPT ![p] = FALSE]
    /\ keyLost' = (keyLost \/ main[p] = "commit")
    /\ UNCHANGED working

Stop(p) ==
    \/ CloseSub(p) \/ EndSub(p) \/ StopAPI(p) \/ StopOracle(p) \/ StopWorkers(p)
    \/ Deadline(p) \/ ExitStopped(p) \/ ExitForced(p)

Boot(p) ==
    \/ LoadGasOracle(p) \/ LoadMasterSignerKey(p) \/ BootstrapMasterKey(p)
    \/ CommitBootstrap(p) \/ StartParts(p)

Process(p) ==
    \/ Boot(p) \/ FailStart(p)
    \/ UseOracle(p) \/ WorkJob(p) \/ EndJob(p)
    \/ Signal(p) \/ Stop(p) \/ Kill(p)

Next ==
    \/ PricesMove /\ UNCHANGED <<lifeVars, keyVars>>
    \/ \E p \in Processes : Process(p)

Spec == Init /\ [][Next]_serviceVars

(* Prices are refreshed while a process runs: a ticker fires, the node     *)
(* answers, a goroutine goes on.  The deadline is a timer, and what it     *)
(* wakes goes on.  That open requests, events or jobs ever end is not      *)
(* assumed, nor that a refresh is over when a process is to stop.          *)
Fairness ==
    /\ \A p \in Workers : WF_serviceVars(MainAt(p, "running") /\ updateGasPrice(p)
                                         /\ UNCHANGED <<lifeVars, keyVars>>)
    /\ \A p \in Processes : WF_serviceVars(Deadline(p) \/ ExitForced(p))

FairSpec == Spec /\ Fairness
----------------------------------------------------------------------------
(* Properties.                                                             *)

TypeOK ==
    /\ GasTypeOK
    /\ main \in [Processes -> Exited \cup Up \cup
                    {"down", "bootstrap", "insert", "commit", "start"}]
    /\ closer \in [Processes -> {"none", "sub", "api", "oracle", "workers", "done"}]
    /\ subUp \in [Processes -> BOOLEAN] /\ working \in [Processes -> BOOLEAN]
    /\ fetching \in [Processes -> BOOLEAN] /\ expired \in [Processes -> BOOLEAN]
    /\ \A p \in Processes : ~HasWorkers(p) => updater[p] = Off /\ ~fetching[p]
    /\ masterKeys \in Nat
    /\ raced \in BOOLEAN /\ keyLost \in BOOLEAN

(* There are two master keys only if two processes had their inserts open  *)
(* at once, and a process runs without one only if a commit of the         *)
(* bootstrap failed: starting, failing and starting again, in any number   *)
(* and one after the other, makes one.                                     *)
OneMasterKey ==
    /\ masterKeys > 1 => raced
    /\ \A p \in Processes : main[p] \in Up \cup {"start"} /\ ~keyLost => masterKeys > 0

(* A process that was told to stop, and is not killed, cuts nothing off    *)
(* before its deadline: when it exits, with whatever code, its subscriber, *)
(* its updater and its last job have ended and no other is fetched.  Past  *)
(* the deadline, exit code 0 still says so of subscriber and updater.      *)
CleanExit ==
    [][\A p \in Processes :
          MainAt(p, "stopping") /\ main'[p] \in Exited /\ faults' = faults =>
              /\ main'[p] = "exit 0" \/ ~expired[p] => ~subUp[p] /\ updater[p] = Off
              /\ ~expired[p] => ~fetching[p] /\ ~working[p]
      ]_serviceVars

(* Liveness: a process that is told to stop exits, though a request, an    *)
(* event, a refresh or a job may never end.                                *)
SignalledExit ==
    \A p \in Processes : MainAt(p, "stopping") ~> ~MainAt(p, "stopping")

(* Liveness: the prices a process with workers signs with follow the       *)
(* node's for as long as it runs.                                          *)
WorkersFollowPrices ==
    \A p \in Workers :
        MainAt(p, "running") ~>
            (feeCap[p] = now /\ tipCap[p] = now) \/ ~MainAt(p, "running")

(* "We pay 20% more than the current gas price to accomdate any            *)
(* fluctuations between cache updates" (updateGasPrice): whatever its mode *)
(* the prices a process signs with are those of some update after the last *)
(* change of the node's.                                                   *)
SignersFollowPrices ==
    \A p \in Processes :
        HasPrices(p) /\ MainAt(p, "running") ~>
            (feeCap[p] = now /\ tipCap[p] = now) \/ ~MainAt(p, "running")
============================================================================
