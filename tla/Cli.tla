---------------------------------- MODULE Cli ----------------------------------
(***************************************************************************)
(* krypto-cli of src/src/bin/krypto-cli/main.rs: one process after another, *)
(* each from its command line to its exit code, over the blobs that earlier *)
(* ones made.  The blobs go through other hands in between, which may       *)
(* change them, and a program that uses the crate may reseal them under     *)
(* another key.  Each step is one that can fail or that reads or writes.    *)
(***************************************************************************)
EXTENDS Aead, FiniteSets

CONSTANTS
  Masters,      \* key files of a good length, each with the key it holds
  Plaintexts,
  CommandLines, \* the command lines that are tried
  NoBlob,       \* what is on stdin when it is no blob
  MaxSealed,    \* bound: blobs that krypto makes
  MaxAltered    \* bound: blobs that others change

Commands == {"version", "inspect", "keyid", "seal", "open", "mac", "sha256", "verify", "bench"}
WithKey  == {"keyid", "seal", "open", "mac"}
WithAead == {"seal", "open", "mac"}

\* A command line: the command, whether --help follows it, whether its flags
\* are ones it takes, each given once with a value, and the values.
CommandLine ==
  [cmd : Commands \cup {"no command"}, help : BOOLEAN, flags : {"right", "wrong"},
   alg : Algs \cup {"absent", "other", "ed25519", "p256"},
   keyFile : Masters \cup {"absent", "unreadable", "wrong length"},
   context : STRING, salt : STRING,
   public : {"absent", "not hex", "malformed", "good"},
   signature : {"absent", "not hex", "malformed", "good"}]

ASSUME CommandLinesAssumption == CommandLines \subseteq CommandLine
ASSUME NoBlobAssumption == NoBlob.magic # "FAFN"
ASSUME CliBoundsAssumption == MaxSealed \in Nat /\ MaxAltered \in Nat

VARIABLES
  pc,        \* the next step; "exited", or "none" when no process runs
  args,      \* the command line
  dkey,      \* the key derived from --key-file, --context and --salt
  stdin,     \* "unread", "read", "oversized" or "failed"
  input,     \* the blob read from stdin
  result,    \* what there is to print
  stdout,    \* "none", "part" or "all" of the result
  exit,      \* the exit code, once it is set
  sealed,    \* history: each blob krypto made, with key, plaintext and algorithm
  altered    \* blobs that others changed

vars  == <<pc, args, dkey, stdin, input, result, stdout, exit, sealed, altered>>
world == <<sealed, altered>>

Blobs == {s.blob : s \in sealed} \cup altered

Stages == {"parse", "alg", "key_file", "needs", "derive", "key_id", "hex_args",
           "stdin", "route", "open", "work", "write"}

NoExit == 255
NoArgs  == [cmd |-> "none", keyFile |-> "absent"]
Nothing == [what |-> "nothing"]
Text    == [what |-> "text"]

TypeOK ==
  /\ pc \in Stages \cup {"exited", "none"}
  /\ args \in CommandLines \cup {NoArgs}
  /\ stdin \in {"unread", "read", "oversized", "failed"}
  /\ input \in Blobs \cup {ShortBlob, NoBlob}
  /\ result.what \in {"nothing", "text", "blob", "plaintext"}
  /\ stdout \in {"none", "part", "all"}
  /\ exit \in 0..4 \cup {NoExit} /\ (exit # NoExit <=> pc = "exited")
  \* Only what was read is worked on, and only what was worked out is printed.
  /\ result.what \in {"blob", "plaintext"} => stdin = "read"
  /\ stdout # "none" => result # Nothing

Init ==
  /\ pc = "none" /\ args = NoArgs /\ dkey = <<>> /\ stdin = "unread" /\ input = NoBlob
  /\ result = Nothing /\ stdout = "none" /\ exit = NoExit
  /\ sealed = {} /\ altered = {}

-----------------------------------------------------------------------------
\* Fail::krypto, and Fail::from_args for what the command line gave.
FailKrypto(e) == CASE e = "Auth" -> 3 [] e = "WrongKey" -> 4 [] OTHER -> 1
FromArgs(e)   == IF FailKrypto(e) = 1 THEN 2 ELSE FailKrypto(e)
Usage         == 2
Io            == 1

Exit(code) ==
  /\ pc' = "exited" /\ exit' = code
  /\ UNCHANGED <<args, dkey, stdin, input, result, stdout, world>>

GoTo(stage) ==
  /\ pc' = stage
  /\ UNCHANGED <<args, dkey, stdin, input, result, stdout, exit, world>>

Show(what) ==
  /\ pc' = "write" /\ result' = what
  /\ UNCHANGED <<args, dkey, stdin, input, stdout, exit, world>>

\* Any step that needs locked memory or randomness may fail.
Hardening == "Hardening"

Start ==
  /\ pc = "none"
  /\ args' \in CommandLines /\ pc' = "parse"
  /\ UNCHANGED <<dkey, stdin, input, result, stdout, exit, world>>

\* The shell takes the exit code, and the process is gone.
Reap ==
  /\ pc = "exited"
  /\ pc' = "none" /\ args' = NoArgs /\ dkey' = <<>> /\ stdin' = "unread" /\ input' = NoBlob
  /\ result' = Nothing /\ stdout' = "none" /\ exit' = NoExit
  /\ UNCHANGED world

ParseWrong ==
  /\ pc = "parse"
  /\ args.cmd = "no command" \/ (args.flags = "wrong" /\ ~args.help)
  /\ Exit(Usage)

ParseHelp ==
  /\ pc = "parse" /\ args.cmd # "no command" /\ args.help
  /\ Show(Text)

Dispatch ==
  /\ pc = "parse" /\ args.cmd # "no command" /\ args.flags = "right" /\ ~args.help
  /\ \/ args.cmd = "version" /\ Show(Text)
     \/ args.cmd = "bench" /\ (Show(Text) \/ Exit(FailKrypto(Hardening)))
     \/ args.cmd \in {"inspect", "sha256"} /\ GoTo("stdin")
     \/ args.cmd = "keyid" /\ GoTo("key_file")
     \/ args.cmd \in WithAead \cup {"verify"} /\ GoTo("alg")

AlgOk  == IF args.cmd = "verify" THEN args.alg \in {"ed25519", "p256"}
                                 ELSE args.alg \in Algs \cup {"absent"}
AlgArg ==
  /\ pc = "alg"
  /\ \/ ~AlgOk /\ Exit(Usage)
     \/ AlgOk /\ args.cmd = "verify" /\ GoTo("hex_args")
     \/ AlgOk /\ args.cmd # "verify" /\ GoTo("key_file")

Master == args.keyFile
KeyFile ==
  /\ pc = "key_file"
  /\ \/ Master = "absent" /\ Exit(Usage)
     \/ Master = "unreadable" /\ Exit(FailKrypto("Io"))
     \/ Master = "wrong length" /\ Exit(FailKrypto("Format"))
     \/ Master \in Masters /\ Exit(FailKrypto(Hardening))
     \/ Master \in Masters /\ GoTo(IF args.cmd = "keyid" THEN "key_id" ELSE "needs")

Needs ==
  /\ pc = "needs"
  /\ IF "absent" \in {args.context, args.salt} THEN Exit(Usage) ELSE GoTo("derive")

\* Mutant: context and salt are looked at after stdin is read.
DeriveLate ==
  /\ pc = "derive"
  /\ LET key == Derive(Master, args.context, args.salt) IN
     /\ key.err # "none"
     /\ stdin' = "read" /\ pc' = "exited" /\ exit' = FromArgs(key.err)
     /\ UNCHANGED <<args, dkey, input, result, stdout, world>>

DeriveKey ==
  /\ pc = "derive"
  /\ LET key == Derive(Master, args.context, args.salt) IN
     \/ key.err # "none" /\ Exit(FromArgs(key.err))
     \/ key.err = "none" /\ Exit(FromArgs(Hardening))
     \/ /\ key.err = "none"
        /\ dkey' = key.val
        /\ pc' = IF args.cmd = "seal" THEN "key_id" ELSE "stdin"
        /\ UNCHANGED <<args, stdin, input, result, stdout, exit, world>>

\* Mutant: seal goes on without its input.
KeyIdThenWork ==
  /\ pc = "key_id"
  /\ \/ Exit(FailKrypto(Hardening))
     \/ args.cmd = "seal" /\ GoTo("work")

\* key_id derives a key of its own.
KeyIdOf ==
  /\ pc = "key_id"
  /\ \/ Exit(FailKrypto(Hardening))
     \/ args.cmd = "keyid" /\ Show(Text)
     \/ args.cmd = "seal" /\ GoTo("stdin")
     \/ args.cmd = "open" /\ GoTo("route")

HexArgs ==
  /\ pc = "hex_args"
  /\ IF {args.public, args.signature} \cap {"absent", "not hex"} # {}
     THEN Exit(Usage) ELSE GoTo("stdin")

\* read_stdin and read_stdin_secret.  What is too big is a wrong call.
ReadFails ==
  /\ pc = "stdin"
  /\ \/ stdin' = "failed"  /\ exit' = Io
     \/ stdin' = "oversized" /\ exit' = Usage
     \/ stdin' = "read" /\ args.cmd = "seal" /\ exit' = FailKrypto(Hardening)
  /\ pc' = "exited"
  /\ UNCHANGED <<args, dkey, input, result, stdout, world>>

ReadStdin ==
  /\ pc = "stdin"
  /\ stdin' = "read"
  /\ input' \in IF args.cmd \in {"open", "inspect"} THEN Blobs \cup {ShortBlob, NoBlob} ELSE {NoBlob}
  /\ pc' = IF args.cmd = "open" THEN "key_id" ELSE "work"
  /\ UNCHANGED <<args, dkey, result, stdout, exit, world>>

\* Mutant: the blob is opened at once.
RouteNowhere == pc = "route" /\ GoTo("open")

\* The key id in the blob is compared with this key's before opening.
Route ==
  /\ pc = "route"
  /\ LET id == BlobKeyId(input) IN
     \/ id.err # "none" /\ Exit(FailKrypto(id.err))
     \/ id.err = "none" /\ id.val # KeyId(Master) /\ Exit(FailKrypto("WrongKey"))
     \/ id.err = "none" /\ id.val = KeyId(Master) /\ GoTo("open")

OpenBlob ==
  /\ pc = "open"
  /\ LET pt == Open(dkey, input) IN
     \/ pt.err # "none" /\ Exit(FailKrypto(pt.err))
     \/ pt.err = "none" /\ Exit(FailKrypto(Hardening))
     \/ pt.err = "none" /\ Show([what |-> "plaintext", pt |-> pt.val])

\* What krypto makes is kept, beside what went into it.
Keep(blob, key, pt, alg) ==
  sealed' = sealed \cup {[blob |-> blob, key |-> key, pt |-> pt, alg |-> alg]}

SealBlob ==
  /\ pc = "work" /\ args.cmd = "seal"
  /\ \/ Exit(FailKrypto(Hardening))
     \/ \E pt \in Plaintexts :
          LET alg  == IF args.alg = "absent" THEN "aegis256" ELSE args.alg
              blob == Seal(dkey, KeyId(Master), pt, alg, Cardinality(sealed))
          IN /\ Cardinality(sealed) < MaxSealed
             /\ Keep(blob, dkey, pt, alg)
             /\ result' = [what |-> "blob", blob |-> blob]
             /\ pc' = "write"
             /\ UNCHANGED <<args, dkey, stdin, input, stdout, exit, altered>>

\* mac and sha256 print what they computed; inspect what it found.
Compute ==
  /\ pc = "work" /\ args.cmd \in {"mac", "sha256", "inspect"}
  /\ Show(Text)

\* A key or signature that has not its shape is told only now.
CheckSignature ==
  /\ pc = "work" /\ args.cmd = "verify"
  /\ IF "malformed" \in {args.public, args.signature} THEN Exit(FromArgs("Format"))
     ELSE Show(Text) \/ Exit(FromArgs("Auth"))

\* inspect tells a changed header by what blob_key_id says of it.
Changed == args.cmd = "inspect" /\ ~args.help /\ BlobKeyId(input).err = "Auth"

Write ==
  /\ pc = "write"
  /\ stdout' = "all"
  /\ exit' = IF Changed THEN FailKrypto("Auth") ELSE 0
  /\ pc' = "exited"
  /\ UNCHANGED <<args, dkey, stdin, input, result, world>>

\* Mutant: a closed stdout goes unnoticed.
WriteFailsSilently ==
  /\ pc = "write"
  /\ stdout' \in {"none", "part"} /\ exit' = 0 /\ pc' = "exited"
  /\ UNCHANGED <<args, dkey, stdin, input, result, world>>

WriteFails ==
  /\ pc = "write"
  /\ stdout' \in {"none", "part"} /\ exit' = Io /\ pc' = "exited"
  /\ UNCHANGED <<args, dkey, stdin, input, result, world>>

-----------------------------------------------------------------------------
\* A program that has both keys moves a blob to the other one.
Rotate ==
  /\ pc = "none" /\ Cardinality(sealed) < MaxSealed
  /\ \E s \in sealed, m \in Masters :
       LET new == DerivedKey(m, s.key[2], s.key[3])
           out == Reseal(s.key, new, KeyId(m), s.blob, Cardinality(sealed))
       IN /\ new # s.key
          /\ Keep(out.val, new, s.pt, s.alg)
  /\ UNCHANGED <<pc, args, dkey, stdin, input, result, stdout, exit, altered>>

\* Others change a blob on its way.
Alter ==
  /\ pc = "none" /\ Cardinality(altered) < MaxAltered
  /\ \E blob \in Blobs : \E other \in Alterations(blob, Blobs) \ Blobs :
       altered' = altered \cup {other}
  /\ UNCHANGED <<pc, args, dkey, stdin, input, result, stdout, exit, sealed>>

Process ==
  \/ Start \/ Reap \/ ParseWrong \/ ParseHelp \/ Dispatch \/ AlgArg \/ KeyFile \/ Needs
  \/ DeriveKey \/ KeyIdOf \/ HexArgs \/ ReadFails \/ ReadStdin \/ Route \/ OpenBlob
  \/ SealBlob \/ Compute \/ CheckSignature \/ Write \/ WriteFails

Next == Process \/ Rotate \/ Alter
Spec == Init /\ [][Next]_vars

-----------------------------------------------------------------------------
\* Whatever became of the blobs on their way, open prints nothing but a
\* plaintext that was sealed under the key it was given, from that very blob.
OpenedIsSealed ==
  args.cmd = "open" /\ result.what = "plaintext" =>
    \E s \in sealed : s.blob = input /\ s.key = dkey /\ s.pt = result.pt

\* The exit codes tell an untouched blob of another key generation (4), one
\* opened with the wrong context or salt (3) and a good one apart, and no
\* changed blob passes for any of them but by its key id.
CodeTold ==
  /\ exit = 4 => input.kid # KeyId(Master)
  /\ \A s \in sealed : s.blob = input =>
       /\ exit = 4 <=> s.key[1] # Master
       /\ exit = 0 <=> s.key = dkey
  /\ exit = 0 => input \in {s.blob : s \in sealed}

\* A blob with a whole header and the FAFN magic is never a Format error (exit 1,
\* as for an I/O error), to no command: a change past the magic is told as one.  Data
\* cut off inside the header is not recognized as a blob, and is Format (aead.rs:104).
ChangeIsNotAMishap ==
  \A b \in Blobs : b.magic = "FAFN" =>
    /\ BlobKeyId(b).err \in {"none", "Auth"}
    /\ \A s \in sealed : Open(s.key, b).err \in {"none", "Auth"}

CodesTellApart ==
  /\ pc = "exited" /\ args.cmd = "open" /\ exit \in {0, 3, 4} /\ stdin = "read" => CodeTold
  /\ pc = "none" => ChangeIsNotAMishap

\* What krypto sealed or resealed opens, under its own key only, to what went
\* in, and keeps the algorithm that was chosen for it.
SealedOpens ==
  pc = "none" => \A s \in sealed :
    /\ Open(s.key, s.blob) = Ok(s.pt)
    /\ ReadHeader(s.blob) = Ok(s.alg)
    /\ \A t \in sealed : t.key # s.key => Open(t.key, s.blob).err = "Auth"

\* Exit 0 means that all of the answer was printed; another code that nothing
\* was, unless stdout broke or inspect reports a changed header.
SilentOnFailure ==
  pc = "exited" =>
    /\ exit = 0 /\ result # Nothing => stdout = "all"
    /\ exit # 0 /\ stdout # "none" => (exit = Io /\ stdout = "part") \/ (exit = 3 /\ Changed)

\* Apart from verify, a wrong call is told before stdin is read.
WrongCallIsToldFirst ==
  exit = Usage /\ args.cmd # "verify" => stdin \in {"unread", "oversized"}

\* tests/cli.rs: exit 2 says that the call is wrong.
WrongCall ==
  \/ args.cmd = "no command" \/ args.flags = "wrong"
  \/ args.cmd \in WithAead \cup {"verify"} /\ ~AlgOk
  \/ args.cmd \in WithKey /\ Master = "absent"
  \/ args.cmd \in WithAead /\ (args.context \in {"absent", "empty", "long"} \/ args.salt \in {"absent", "long"})
  \/ args.cmd = "verify" /\ {args.public, args.signature} # {"good"}

\* Exit 2 is given for a wrong call, or too much on stdin, and for nothing else
\* (docs/Cli.md).
ExitTwoIsAWrongCall == exit = Usage => WrongCall \/ stdin = "oversized"
================================================================================
