-------------------------- MODULE DeveloperRuntime --------------------------
(***************************************************************************)
(* The developer's commands over one Local Node: cervel:setup, :dev,       *)
(* :verify, :stop and :reset (scripts/developer-*.ts) with the start, lock *)
(* and init they call (apps/local-node/src/cli.ts, vault.ts).              *)
(*                                                                         *)
(* A command is a sequence of writes to files, processes and containers,   *)
(* one step each here; it may be interrupted between any two, the machine  *)
(* may reboot, and the next command, perhaps in a shell with another       *)
(* environment, finds what was left.  The developer runs one at a time.    *)
(*                                                                         *)
(* Abstracted: toolchain checks, .env, messages, ports other than the      *)
(* API's, the path checks and the confirmation of a reset (a refused reset *)
(* changes nothing), what the golden path does.  A vault, a process and a  *)
(* generated passphrase is a number, never used twice.                     *)
(***************************************************************************)
EXTENDS Naturals, FiniteSets

CONSTANT MaxCommands          \* bound: the commands the developer runs

VARIABLES vault,       \* the vault directory
          passFile,    \* bootstrap-passphrase: 0 when absent
          setupFile,   \* setup.json
          pidFile,     \* runtime/node.pid: 0 when absent
          nodes,       \* the API processes
          database,    \* vaults whose PostgreSQL container runs
          command,     \* the command under way, or the last one
          fresh,       \* the next number
          lost,        \* history: processes whose pid no one wrote down
          kept         \* history: vaults whose last `docker stop` failed, unnoticed

runtimeVars == <<vault, passFile, setupFile, pidFile, nodes, database, command, fresh, lost, kept>>
files == <<vault, passFile, setupFile, pidFile>>

\* `sealed` is the passphrase secrets.cvlt opens with, `record` is bootstrap.json.
NoVault == [id |-> 0, manifest |-> FALSE, sealed |-> 0, record |-> FALSE]
NoSetup == [vault |-> 0, source |-> "none"]
EnvPassphrase == 1
Ended == {"done", "failed", "timeout", "interrupted"}

RuntimeInit ==
    /\ vault = NoVault /\ passFile = 0 /\ setupFile = NoSetup /\ pidFile = 0
    /\ nodes = {} /\ database = {} /\ fresh = 2 /\ lost = {} /\ kept = {}
    /\ command = [name |-> "none", at |-> "done", env |-> FALSE, pass |-> 0, pid |-> 0, count |-> 0]

Goto(step) == command' = [command EXCEPT !.at = step]
AtStep(step) == command.at = step
Listening(n) == n.at \in {"listening", "signalled"}

\* GET /ready: the process on the port reaches the database it was started with.
Ready == \E n \in nodes : Listening(n) /\ n.vault \in database

\* SIGTERM: a process still starting goes without ever listening.
Signalled(pid) ==
    {IF n.pid # pid THEN n ELSE [n EXCEPT !.at = IF @ = "booting" THEN "dying" ELSE "signalled"] : n \in nodes}

(***************************************************************************)
(* A command begins; where each starts.                                    *)
(***************************************************************************)
FirstStep == [setup |-> "passphrase", dev |-> "doctor", verify |-> "load", stop |-> "stop", reset |-> "stop"]

\* A process that was told to end is gone before npm has started the next command.
Begin(name, env) ==
    /\ \A n \in nodes : n.at \notin {"signalled", "dying"}
    /\ command.at \in Ended /\ command.count < MaxCommands
    /\ command' = [name |-> name, at |-> FirstStep[name], env |-> env, pass |-> 0, pid |-> 0,
                   count |-> command.count + 1]
    /\ UNCHANGED <<vault, passFile, setupFile, pidFile, nodes, database, fresh, lost, kept>>

\* Mutant: any healthy looking node will do.
HealthyByProbe == setupFile.vault # 0 /\ Ready

\* The checks of cervel:doctor that read state; none of the failures is found.
Healthy ==
    /\ setupFile.vault # 0 /\ vault.manifest /\ vault.record /\ setupFile.vault = vault.id
    /\ setupFile.source = "file" => passFile # 0
    /\ vault.id \in database /\ Ready

\* dev: reuse a healthy node, or set up.
Doctor ==
    /\ AtStep("doctor") /\ Goto(IF Healthy THEN "done" ELSE "passphrase")
    /\ UNCHANGED <<vault, passFile, setupFile, pidFile, nodes, database, fresh, lost, kept>>

\* verify: the recorded setup, its passphrase, and the vault it opens.
Load ==
    LET p == IF command.env THEN EnvPassphrase ELSE IF setupFile.source = "file" THEN passFile ELSE 0 IN
    /\ AtStep("load")
    /\ command' = [command EXCEPT !.pass = p, !.at = IF \/ setupFile.vault = 0 \/ p = 0
                                                        \/ ~vault.manifest \/ vault.sealed # p THEN "failed"
                                                     ELSE IF Ready THEN "done" ELSE "unlock"]
    /\ UNCHANGED <<vault, passFile, setupFile, pidFile, nodes, database, fresh, lost, kept>>

(***************************************************************************)
(* setup: the passphrase, the vault, the node, setup.json.                 *)
(***************************************************************************)
Passphrase ==
    LET p == IF command.env THEN EnvPassphrase ELSE IF passFile # 0 THEN passFile ELSE fresh IN
    /\ AtStep("passphrase")
    /\ command' = [command EXCEPT !.pass = p, !.at = "vault"]
    /\ passFile' = IF p = fresh THEN p ELSE passFile
    /\ fresh' = IF p = fresh THEN fresh + 1 ELSE fresh
    /\ UNCHANGED <<vault, setupFile, pidFile, nodes, database, lost, kept>>

\* createVault refuses a directory that exists, vault.json or not.
MakeVault ==
    /\ AtStep("vault")
    /\ Goto(IF vault.manifest THEN "unlock" ELSE IF vault.id # 0 THEN "failed" ELSE "manifest")
    /\ vault' = IF vault.id # 0 THEN vault ELSE [NoVault EXCEPT !.id = fresh]
    /\ fresh' = IF vault.id # 0 THEN fresh ELSE fresh + 1
    /\ UNCHANGED <<passFile, setupFile, pidFile, nodes, database, lost, kept>>

WriteManifest ==
    /\ AtStep("manifest") /\ Goto("secrets") /\ vault' = [vault EXCEPT !.manifest = TRUE]
    /\ UNCHANGED <<passFile, setupFile, pidFile, nodes, database, fresh, lost, kept>>

WriteSecrets ==
    /\ AtStep("secrets") /\ Goto("unlock") /\ vault' = [vault EXCEPT !.sealed = command.pass]
    /\ UNCHANGED <<passFile, setupFile, pidFile, nodes, database, fresh, lost, kept>>

Unlock ==
    /\ AtStep("unlock") /\ Goto(IF vault.sealed = command.pass THEN "pidfile" ELSE "failed")
    /\ UNCHANGED <<vault, passFile, setupFile, pidFile, nodes, database, fresh, lost, kept>>

\* The recorded process lives and the port is ready: reuse; else end it.
CheckPid ==
    LET alive == pidFile # 0 /\ \E n \in nodes : n.pid = pidFile IN
    /\ AtStep("pidfile")
    /\ IF alive /\ Ready THEN Goto("ready") /\ UNCHANGED <<nodes, pidFile>>
       ELSE Goto("database") /\ nodes' = Signalled(pidFile) /\ pidFile' = 0
    /\ UNCHANGED <<vault, passFile, setupFile, database, fresh, lost, kept>>

\* Another container on the port makes docker fail.
StartDatabase ==
    /\ AtStep("database")
    /\ IF database \ {vault.id} # {} THEN Goto("failed") /\ UNCHANGED database
       ELSE Goto("bootstrap") /\ database' = {vault.id}
    /\ UNCHANGED <<vault, passFile, setupFile, pidFile, nodes, fresh, lost, kept>>

WriteBootstrap ==
    /\ AtStep("bootstrap") /\ Goto("spawn") /\ vault' = [vault EXCEPT !.record = TRUE]
    /\ UNCHANGED <<passFile, setupFile, pidFile, nodes, database, fresh, lost, kept>>

Spawn ==
    /\ AtStep("spawn") /\ command' = [command EXCEPT !.at = "pid", !.pid = fresh]
    /\ nodes' = nodes \cup {[pid |-> fresh, vault |-> vault.id, at |-> "booting"]}
    /\ fresh' = fresh + 1
    /\ UNCHANGED <<vault, passFile, setupFile, pidFile, database, lost, kept>>

WritePid ==
    /\ AtStep("pid") /\ Goto("listening") /\ pidFile' = command.pid
    /\ UNCHANGED <<vault, passFile, setupFile, nodes, database, fresh, lost, kept>>

AwaitReady ==
    /\ AtStep("listening")
    /\ IF Ready THEN Goto(IF command.name = "verify" THEN "done" ELSE "ready") ELSE Goto("timeout")
    /\ UNCHANGED <<vault, passFile, setupFile, pidFile, nodes, database, fresh, lost, kept>>

VerifyReady ==
    /\ AtStep("ready") /\ Goto(IF ~Ready THEN "failed" ELSE IF command.name = "verify" THEN "done" ELSE "record")
    /\ UNCHANGED <<vault, passFile, setupFile, pidFile, nodes, database, fresh, lost, kept>>

WriteSetup ==
    /\ AtStep("record")
    /\ IF ~vault.record THEN Goto("failed") /\ UNCHANGED setupFile
       ELSE /\ Goto("done")
            /\ setupFile' = [vault |-> vault.id, source |-> IF command.env THEN "environment" ELSE "file"]
    /\ UNCHANGED <<vault, passFile, pidFile, nodes, database, fresh, lost, kept>>

(***************************************************************************)
(* stop, and reset, which stops first.                                     *)
(***************************************************************************)
AfterStop == IF command.name = "reset" THEN "remove" ELSE "done"

\* lock: it opens nothing, but a passphrase must be at hand.
Stop ==
    /\ AtStep("stop")
    /\ IF ~vault.manifest THEN Goto(AfterStop) /\ UNCHANGED <<nodes, pidFile>>
       ELSE IF ~command.env /\ passFile = 0 THEN Goto("failed") /\ UNCHANGED <<nodes, pidFile>>
       ELSE Goto("dbstop") /\ nodes' = Signalled(pidFile) /\ pidFile' = 0
    /\ UNCHANGED <<vault, passFile, setupFile, database, fresh, lost, kept>>

\* What docker stop returns is not looked at.  A container it does not stop is
\* one `--restart unless-stopped` brings back with the daemon.
StopDatabase ==
    /\ AtStep("dbstop") /\ Goto("probe")
    /\ \/ database' = database \ {vault.id} /\ kept' = kept \ {vault.id}
       \/ UNCHANGED database /\ kept' = kept \cup {vault.id}
    /\ UNCHANGED <<vault, passFile, setupFile, pidFile, nodes, fresh, lost>>

Probe ==
    /\ AtStep("probe") /\ Goto(IF Ready THEN "failed" ELSE AfterStop)
    /\ UNCHANGED <<vault, passFile, setupFile, pidFile, nodes, database, fresh, lost, kept>>

\* rm -r goes through the directory in no order the code knows.
RemoveSome ==
    /\ AtStep("remove") /\ vault.id # 0 /\ UNCHANGED command
    /\ vault' \in {[vault EXCEPT !.manifest = FALSE], [vault EXCEPT !.sealed = 0], [vault EXCEPT !.record = FALSE]}
    /\ UNCHANGED <<passFile, setupFile, pidFile, nodes, database, fresh, lost, kept>>

\* Mutant: the state first, the vault after it.
RemoveStateFirst ==
    /\ AtStep("remove") /\ Goto("remove") /\ passFile' = 0
    /\ UNCHANGED <<vault, setupFile, pidFile, nodes, database, fresh, lost, kept>>

RemoveVault ==
    /\ AtStep("remove") /\ Goto("clear") /\ vault' = NoVault /\ pidFile' = 0
    /\ UNCHANGED <<passFile, setupFile, nodes, database, fresh, lost, kept>>

ClearSome ==
    /\ AtStep("clear") /\ UNCHANGED command
    /\ \/ passFile' = 0 /\ UNCHANGED setupFile
       \/ setupFile' = NoSetup /\ UNCHANGED passFile
    /\ UNCHANGED <<vault, pidFile, nodes, database, fresh, lost, kept>>

ClearState ==
    /\ AtStep("clear") /\ Goto("done") /\ passFile' = 0 /\ setupFile' = NoSetup
    /\ UNCHANGED <<vault, pidFile, nodes, database, fresh, lost, kept>>

(***************************************************************************)
(* The processes, and what interrupts a command.                           *)
(***************************************************************************)
\* A second process on the port ends with EADDRINUSE.
Bind(n) ==
    /\ n.at = "booting"
    /\ nodes' = IF \E o \in nodes : Listening(o) THEN nodes \ {n}
                ELSE (nodes \ {n}) \cup {[n EXCEPT !.at = "listening"]}
    /\ UNCHANGED <<files, database, command, fresh, lost, kept>>

Exit(n) ==
    /\ n.at \in {"signalled", "dying"} /\ nodes' = nodes \ {n}
    /\ UNCHANGED <<files, database, command, fresh, lost, kept>>

Interrupt ==
    /\ command.at \notin Ended /\ Goto("interrupted")
    /\ lost' = IF AtStep("pid") THEN lost \cup {command.pid} ELSE lost
    /\ UNCHANGED <<files, nodes, database, fresh, kept>>

Reboot ==
    /\ nodes # {} /\ nodes' = {} /\ Goto("interrupted")
    /\ UNCHANGED <<files, database, fresh, lost, kept>>

Run == \/ Doctor \/ Load \/ Passphrase \/ MakeVault \/ WriteManifest \/ WriteSecrets \/ Unlock \/ CheckPid
       \/ StartDatabase \/ WriteBootstrap \/ Spawn \/ WritePid \/ AwaitReady \/ VerifyReady \/ WriteSetup
       \/ Stop \/ StopDatabase \/ Probe \/ RemoveSome \/ RemoveVault \/ ClearSome \/ ClearState

RuntimeNext ==
    \/ \E name \in DOMAIN FirstStep, env \in BOOLEAN : Begin(name, env)
    \/ Run \/ Interrupt \/ Reboot
    \/ \E n \in nodes : Bind(n) \/ Exit(n)

RuntimeSpec == RuntimeInit /\ [][RuntimeNext]_runtimeVars

-----------------------------------------------------------------------------
RuntimeTypeOK ==
    /\ vault \in [id : Nat, manifest : BOOLEAN, sealed : Nat, record : BOOLEAN]
    /\ setupFile \in [vault : Nat, source : {"none", "file", "environment"}]
    /\ {passFile, pidFile, fresh} \subseteq Nat /\ database \cup lost \cup kept \subseteq Nat
    /\ \A n \in nodes : n.at \in {"booting", "listening", "signalled", "dying"} /\ n.pid < fresh

(* A vault that was sealed with a generated passphrase can be opened as    *)
(* long as it exists: the only copy of the passphrase is never replaced,   *)
(* and a reset removes it after the vault, wherever it is interrupted.     *)
PassphraseOutlivesVault == vault.sealed > EnvPassphrase => passFile = vault.sealed

(* A setup, dev or verify that reports success leaves a node of this vault *)
(* on the port, over this vault's database; after setup and dev, setup.json *)
(* describes it.  Never the leftovers of an earlier vault, except that     *)
(* verify asks only whether the port is ready, and a database that an      *)
(* earlier reset could not stop may answer there.  (verify also trusts a   *)
(* setup.json that an interrupted reset left; its golden path finds out.)  *)
ReadyIsThisVault ==
    command.at = "done" /\ command.name \in {"setup", "dev", "verify"} =>
        /\ vault.manifest
        /\ command.name # "verify" => vault.record /\ setupFile.vault = vault.id
        /\ \/ \E n \in nodes : Listening(n) /\ n.vault = vault.id /\ vault.id \in database
           \/ command.name = "verify" /\ database \ {vault.id} # {}

(* After a stop or reset that reports success a database runs only if      *)
(* docker failed to stop it.  No process goes on but those told to end and *)
(* those of a start that was interrupted between the spawn and the pid     *)
(* file, which no command can find; only one of these, over a database     *)
(* that was not stopped, still answers.                                    *)
StopEndsWhatItKnows ==
    command.at = "done" /\ command.name \in {"stop", "reset"} =>
        /\ database \subseteq kept
        /\ \A n \in nodes : n.at \in {"signalled", "dying"} \/ n.pid \in lost
        /\ \A n \in nodes : Listening(n) /\ n.vault \in database => n.pid \in lost

(* What cervel:stop promises, and its last message says: the vault's       *)
(* PostgreSQL container is stopped.                                        *)
StopStopsTheDatabase ==
    command.at = "done" /\ command.name = "stop" => vault.id \notin database

(* A reset that reports success left nothing behind, even when an earlier  *)
(* one was interrupted half way through the directories.                   *)
ResetIsComplete ==
    command.at = "done" /\ command.name = "reset" =>
        vault = NoVault /\ passFile = 0 /\ setupFile = NoSetup /\ pidFile = 0

(* A setup refuses for three reasons only: a vault that another run left   *)
(* half made or half removed, one sealed with another passphrase, or the   *)
(* container of an earlier vault that a reset could not stop, which holds  *)
(* the port.  Over nothing, or over its own whole vault, it does not.      *)
SetupRefusesForCause ==
    command.at = "failed" /\ command.name \in {"setup", "dev"} =>
        \/ vault.id # 0 /\ ~vault.manifest
        \/ vault.sealed # command.pass
        \/ database \ {vault.id} # {}

(* What a command reports at its end is so, whatever earlier commands were *)
(* interrupted at and left behind.                                         *)
CommandsTellTheTruth == ReadyIsThisVault /\ StopEndsWhatItKnows /\ ResetIsComplete /\ SetupRefusesForCause
=============================================================================
