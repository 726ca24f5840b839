--------------------------------- MODULE Main ---------------------------------
(***************************************************************************)
(* main of both servers and the setup part of run: one invocation of the  *)
(* process, from its arguments to its exit status.  The first server       *)
(* (src/dnstt-server/main.go, main 495-525) checks the positional          *)
(* arguments and calls run; the Noise server (src/unnamed/part_000, main   *)
(* 634-730) also has the -gen-key mode, which calls generateKeypair        *)
(* (KeyGen, composed through INSTANCE), and the server key flags.  run     *)
(* starts the KCP listener (kcp.ServeConn on the in-memory QueuePacketConn *)
(* cannot fail), listens on UDP if -udp was given and waits for loop.      *)
(* Flag parsing is abstracted to the values the flags end up with; every  *)
(* parse, resolve, read and listen may fail.  What loop does while serving *)
(* is Carrier's and V1Carrier's; here it only ends.                        *)
(***************************************************************************)
CONSTANT Names   \* file names a user may give

VARIABLES
    server,          \* "v1" (main.go) or "noise" (part_000)
    genKey,          \* the -gen-key flag
    nArg,            \* flag.NArg(): the number of positional arguments
    privkeyString,   \* the -privkey flag: NoName or "hex"
    udpAddr,         \* the -udp flag: NoName or "addr"
    mpc,             \* where main is: "args", "resolve", "keyflags", "readkey",
                     \*   "decodekey", "ephemeral", "genkey", "run", "serving", "exited"
    exitCode,        \* the status the process exits with
    key,             \* the server key run gets: "none", "file", "flag", "ephemeral"
    privkeyFilename, pubkeyFilename, pc, files, toDelete, err, created, removeFailed

KG == INSTANCE KeyGen

NoName == KG!NoName

mainVars == <<server, genKey, nArg, privkeyString, udpAddr>>
kgVars == <<privkeyFilename, pubkeyFilename, pc, files, toDelete, err, created, removeFailed>>
vars == <<mainVars, mpc, exitCode, key, kgVars>>

(* os.Exit(code), or main returning (code 0).                              *)
Exit(code) == mpc' = "exited" /\ exitCode' = code

(* What a file holds: absent, an old file, a key, or a cut-off key.        *)
FileContents == {"absent", "old", "priv", "pub", "partial"}

-----------------------------------------------------------------------------
(* -gen-key with positional arguments, -privkey or -udp: usage, exit 1.    *)
GenKeyUsage ==
    /\ mpc = "args" /\ genKey
    /\ nArg # 0 \/ privkeyString # NoName \/ udpAddr # NoName
    /\ Exit(1)
    /\ UNCHANGED <<mainVars, key, kgVars>>

(* main calls generateKeypair(privkeyFilename, pubkeyFilename).            *)
CallGenerateKeypair ==
    /\ mpc = "args" /\ genKey
    /\ nArg = 0 /\ privkeyString = NoName /\ udpAddr = NoName
    /\ mpc' = "genkey" /\ pc' = "generate"
    /\ UNCHANGED <<mainVars, exitCode, key, privkeyFilename, pubkeyFilename, files,
                   toDelete, err, created, removeFailed>>

(* A step of generateKeypair.                                              *)
GenKeyStep ==
    /\ mpc = "genkey" /\ KG!Next
    /\ UNCHANGED <<mainVars, mpc, exitCode, key>>

(* generateKeypair has returned: on an error main prints it and exits 1;  *)
(* otherwise main returns.                                                 *)
GenKeyReturn ==
    /\ mpc = "genkey" /\ pc = "done"
    /\ Exit(IF err THEN 1 ELSE 0)
    /\ UNCHANGED <<mainVars, key, kgVars>>

(* Server mode without exactly two positional arguments: usage, exit 1.   *)
Usage ==
    /\ mpc = "args" /\ ~genKey /\ nArg # 2
    /\ Exit(1)
    /\ UNCHANGED <<mainVars, key, kgVars>>

(* dns.ParseName of DOMAIN; on an error main exits 1.                      *)
ParseDomain(ok) ==
    /\ mpc = "args" /\ ~genKey /\ nArg = 2
    /\ IF ok THEN mpc' = "resolve" /\ UNCHANGED exitCode ELSE Exit(1)
    /\ UNCHANGED <<mainVars, key, kgVars>>

(* net.ResolveTCPAddr of UPSTREAMADDR; on an error main exits 1.  The      *)
(* first server then calls run; the Noise server looks at its key flags.   *)
ResolveUpstream(ok) ==
    /\ mpc = "resolve"
    /\ IF ok THEN /\ mpc' = IF server = "v1" THEN "run" ELSE "keyflags"
                  /\ UNCHANGED exitCode
             ELSE Exit(1)
    /\ UNCHANGED <<mainVars, key, kgVars>>

(* -pubkey-file outside -gen-key, or both -privkey and -privkey-file:      *)
(* main exits 1.                                                           *)
RejectKeyFlags ==
    /\ mpc = "keyflags"
    /\ pubkeyFilename # NoName \/ (privkeyFilename # NoName /\ privkeyString # NoName)
    /\ Exit(1)
    /\ UNCHANGED <<mainVars, key, kgVars>>

(* The key comes from -privkey-file, else from -privkey, else it is       *)
(* generated.                                                              *)
ChooseKeySource ==
    /\ mpc = "keyflags"
    /\ pubkeyFilename = NoName /\ ~(privkeyFilename # NoName /\ privkeyString # NoName)
    /\ mpc' = IF privkeyFilename # NoName THEN "readkey"
              ELSE IF privkeyString # NoName THEN "decodekey" ELSE "ephemeral"
    /\ UNCHANGED <<mainVars, exitCode, key, kgVars>>

(* Whether readKeyFromFile succeeds on a file: os.Open fails on an absent  *)
(* file; noise.ReadKey accepts any whole key (a public key as well) and    *)
(* rejects a cut-off one; an old file may hold anything.                   *)
ReadKeyOutcomes(content) ==
    IF content = "old" THEN BOOLEAN ELSE {content \in {"priv", "pub"}}

(* A mutant of ReadKeyFile: the error of readKeyFromFile is not checked,   *)
(* so privkey stays empty and a one-time key is generated.                 *)
ReadKeyFileIgnoresError(ok) ==
    /\ mpc = "readkey"
    /\ mpc' = IF ok THEN "run" ELSE "ephemeral"
    /\ key' = IF ok THEN "file" ELSE key
    /\ UNCHANGED <<mainVars, exitCode, kgVars>>

(* readKeyFromFile(privkeyFilename); on an error main exits 1.             *)
ReadKeyFile(ok) ==
    /\ mpc = "readkey"
    /\ IF ok THEN mpc' = "run" /\ key' = "file" /\ UNCHANGED exitCode
             ELSE Exit(1) /\ UNCHANGED key
    /\ UNCHANGED <<mainVars, kgVars>>

(* noise.DecodeKey(privkeyString); on an error main exits 1.               *)
DecodeKeyFlag(ok) ==
    /\ mpc = "decodekey"
    /\ IF ok THEN mpc' = "run" /\ key' = "flag" /\ UNCHANGED exitCode
             ELSE Exit(1) /\ UNCHANGED key
    /\ UNCHANGED <<mainVars, kgVars>>

(* No key given: a one-time keypair is generated; on an error main exits 1.*)
EphemeralKey(ok) ==
    /\ mpc = "ephemeral"
    /\ IF ok THEN mpc' = "run" /\ key' = "ephemeral" /\ UNCHANGED exitCode
             ELSE Exit(1) /\ UNCHANGED key
    /\ UNCHANGED <<mainVars, kgVars>>

(* run with -udp: net.ListenPacket; on an error run returns it and main's *)
(* log.Fatal exits 1; otherwise loop starts.                               *)
ListenUdp(ok) ==
    /\ mpc = "run" /\ udpAddr # NoName
    /\ IF ok THEN mpc' = "serving" /\ UNCHANGED exitCode ELSE Exit(1)
    /\ UNCHANGED <<mainVars, key, kgVars>>

(* run without -udp: no loop is started, wg.Wait returns at once, run     *)
(* returns nil and main returns.                                           *)
RunWithoutUdp ==
    /\ mpc = "run" /\ udpAddr = NoName
    /\ Exit(0)
    /\ UNCHANGED <<mainVars, key, kgVars>>

(* loop returns (a fatal datagram I/O error): the goroutine logs it,      *)
(* wg.Wait returns, run returns nil and main returns.                      *)
LoopEnds ==
    /\ mpc = "serving"
    /\ Exit(0)
    /\ UNCHANGED <<mainVars, key, kgVars>>

-----------------------------------------------------------------------------
(* Any flags either server accepts, and any files on disk.                 *)
Init ==
    /\ server \in {"v1", "noise"}
    /\ genKey \in IF server = "noise" THEN BOOLEAN ELSE {FALSE}
    /\ nArg \in {0, 2}
    /\ privkeyString \in IF server = "noise" THEN {NoName, "hex"} ELSE {NoName}
    /\ privkeyFilename \in IF server = "noise" THEN Names \cup {NoName} ELSE {NoName}
    /\ pubkeyFilename \in IF server = "noise" THEN Names \cup {NoName} ELSE {NoName}
    /\ udpAddr \in {NoName, "addr"}
    /\ files \in [Names -> FileContents]
    /\ mpc = "args" /\ exitCode = 0 /\ key = "none"
    /\ pc = "idle" /\ toDelete = <<>> /\ err = FALSE /\ created = {} /\ removeFailed = {}

Next ==
    \/ GenKeyUsage \/ CallGenerateKeypair \/ GenKeyStep \/ GenKeyReturn
    \/ Usage \/ RejectKeyFlags \/ ChooseKeySource
    \/ \E ok \in BOOLEAN :
          \/ ParseDomain(ok) \/ ResolveUpstream(ok) \/ DecodeKeyFlag(ok)
          \/ EphemeralKey(ok) \/ ListenUdp(ok)
    \/ mpc = "readkey" /\ \E ok \in ReadKeyOutcomes(files[privkeyFilename]) : ReadKeyFile(ok)
    \/ RunWithoutUdp \/ LoopEnds

Spec == Init /\ [][Next]_vars

-----------------------------------------------------------------------------
(* -gen-key exits 0 only when every named file holds its whole key (the    *)
(* private key's file unless -pubkey-file names the same file): a failed   *)
(* write, Close or Remove anywhere in generateKeypair must reach the exit  *)
(* status.                                                                 *)
GenKeyExitLeavesKeys ==
    mpc = "exited" /\ genKey /\ exitCode = 0 =>
        /\ pubkeyFilename # NoName => files[pubkeyFilename] = "pub"
        /\ privkeyFilename \notin {NoName, pubkeyFilename} => files[privkeyFilename] = "priv"

(* When -gen-key exits non-zero, no file generateKeypair created is left   *)
(* behind (spec: "partially written files are deleted"), unless deleting   *)
(* it failed too and was reported.                                         *)
GenKeyFailureLeavesNoPartialFile ==
    mpc = "exited" /\ genKey /\ exitCode # 0 =>
        \A n \in created : files[n] = "absent" \/ n \in removeFailed

(* The Noise server serves with the key the user gave: from -privkey-file  *)
(* or -privkey when one was given, and a one-time key only when neither    *)
(* was; a key file that cannot be read ends the process instead.           *)
ServerKeyAsConfigured ==
    server = "noise" /\ mpc = "serving" =>
        /\ key # "none"
        /\ key = "ephemeral" <=> (privkeyFilename = NoName /\ privkeyString = NoName)

(* Spec: "-udp address is required" and setup errors exit non-zero: in     *)
(* server mode, a process started without -udp ends with a non-zero status.*)
UdpRequired ==
    mpc = "exited" /\ ~genKey /\ udpAddr = NoName => exitCode # 0

==============================================================================
