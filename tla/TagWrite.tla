------------------------------ MODULE TagWrite ------------------------------
(***************************************************************************)
(* Writing an RFID tag and reading it back, by the two ways there are: the *)
(* page's own transports (apps/web/lib/rfid/browser-transport.ts, started  *)
(* by rfid-form.tsx) and the bridge's PC/SC reader                         *)
(* (apps/bridge/src/transport.rs).                                         *)
(*                                                                         *)
(* The adapter behind Web Serial and WebUSB, the PC/SC reader and the tag  *)
(* are external: a command may be refused, carried out late or never, or   *)
(* answered OK without effect, and the tag may be taken away for another.  *)
(* A tag's payload is three blocks.                                        *)
(***************************************************************************)
EXTENDS Integers, Sequences

CONSTANTS
    Ways,              \* subset of {"memory", "web-serial", "web-usb", "pcsc"}
    Payloads,          \* payloads a spool's data encodes to
    NoPayload,         \* an empty tag
    MaxWrites          \* bound: attempts

ASSUME TagParameters ==
    /\ Ways \subseteq {"memory", "web-serial", "web-usb", "pcsc"}
    /\ NoPayload \notin Payloads /\ MaxWrites \in Nat

VARIABLES
    tag,               \* external: the blocks of the tag on the reader
    commands,          \* external: what the adapter has yet to carry out
    replies,           \* lines on their way to the page's open connection
    way, step,         \* the attempt at work and the step it reached
    wanted,            \* the payload it writes
    readBack,          \* the blocks it read after writing
    result,            \* what the form shows
    attempt            \* attempts so far

tagVars == <<tag, commands, replies, way, step, wanted, readBack, result, attempt>>

Blocks == 1..3
Contents == Payloads \cup {NoPayload}
Whole(c) == [b \in Blocks |-> c]

TagTypeOK ==
    /\ tag \in [Blocks -> Contents] /\ readBack \in [Blocks -> Contents]
    /\ \A i \in DOMAIN commands :
          commands[i].name \in {"HELLO", "WRITE", "READ"} /\ commands[i].of \in 1..attempt
    /\ \A i \in DOMAIN replies : replies[i].name \in {"READY", "OK", "ERR", "DATA"}
    /\ way \in Ways \cup {"none"} /\ wanted \in Contents
    /\ step \in {"end", "hello", "encode", "write", "read", "verify",
               "block", "block_back"}
    /\ result \in {"none", "busy", "ok", "error"}
    /\ attempt \in 0..MaxWrites
-----------------------------------------------------------------------------
(* The attempt of the page.                                                *)

InBrowser == way \in {"memory", "web-serial", "web-usb"}
OnLine == way \in {"web-serial", "web-usb"}

\* disconnect, whatever happened: what is still on its way is lost.
Finish(shown) ==
    /\ result' = shown /\ way' = "none" /\ step' = "end" /\ replies' = <<>>

Send(name) ==
    commands' = Append(commands, [name |-> name, of |-> attempt', payload |-> wanted'])

\* The form's buttons are off while it is busy.
BeginWrite(w, c) ==
    /\ result # "busy" /\ attempt < MaxWrites
    /\ attempt' = attempt + 1 /\ wanted' = c /\ way' = w /\ result' = "busy"
    /\ readBack' = Whole(NoPayload)
    /\ CASE w \in {"web-serial", "web-usb"} -> step' = "hello" /\ Send("HELLO")
         [] w = "memory" -> step' = "encode" /\ UNCHANGED commands
         [] w = "pcsc" -> step' = "block" /\ UNCHANGED commands
    /\ UNCHANGED <<tag, replies>>

\* The encoder of the API answers, or fails.
EncodePayload ==
    /\ step = "encode" /\ UNCHANGED <<tag, attempt, wanted>>
    /\ \/ /\ step' = "write"
          /\ IF OnLine THEN Send("WRITE") ELSE UNCHANGED commands
          /\ UNCHANGED <<replies, way, readBack, result>>
       \/ Finish("error") /\ UNCHANGED <<commands, readBack>>

\* The transport in memory keeps what it is given.
WriteMemory ==
    /\ step = "write" /\ way = "memory"
    /\ tag' = Whole(wanted) /\ readBack' = Whole(wanted) /\ step' = "verify"
    /\ UNCHANGED <<commands, replies, way, wanted, result, attempt>>

\* A line arrives: the next command follows the answer that was due, any other
\* answer ends the attempt.
ReadLine ==
    /\ OnLine /\ replies # <<>>
    /\ UNCHANGED <<tag, wanted, attempt>>
    /\ LET line == Head(replies)
           due == [hello |-> "READY", write |-> "OK", read |-> "DATA"] IN
       IF step \in DOMAIN due /\ line.name = due[step]
       THEN /\ replies' = Tail(replies)
            /\ CASE step = "hello" -> step' = "encode" /\ UNCHANGED <<commands, readBack>>
                 [] step = "write" -> step' = "read" /\ Send("READ") /\ UNCHANGED readBack
                 [] step = "read" -> /\ step' = "verify" /\ readBack' = line.blocks
                                   /\ UNCHANGED commands
            /\ UNCHANGED <<way, result>>
       ELSE Finish("error") /\ UNCHANGED <<commands, readBack>>

\* Mutant of TimeOut: readLine waits for as long as it takes.
TimeOut_Never == FALSE /\ UNCHANGED tagVars

Waiting == step \in {"hello", "write", "read"}

\* readLine gives up after 8 s.  readUsbLine looks at its deadline only when
\* transferIn has returned: it may then throw away a line that came late, and waits
\* for as long as the adapter is silent.
TimeOut ==
    /\ Waiting
    /\ \/ way = "web-serial" /\ replies = <<>>
       \/ way = "web-usb" /\ replies # <<>>
    /\ Finish("error")
    /\ UNCHANGED <<tag, commands, readBack, wanted, attempt>>

ReadBackMatches == readBack = Whole(wanted)

\* What was read is compared with what was written, then decoded by the API.
VerifyReadBack ==
    /\ step = "verify"
    /\ \/ /\ ReadBackMatches
          /\ \E c \in Payloads : readBack = Whole(c)
          /\ Finish("ok")
       \/ Finish("error")
    /\ UNCHANGED <<tag, commands, readBack, wanted, attempt>>
-----------------------------------------------------------------------------
(* The bridge: a block at a time.  Only an error of the transmission ends  *)
(* it; the reader's status words are not looked at.                        *)

\* After the reader, the tag's UID and the key, and the backup of its blocks.
WriteBlocks ==
    /\ step = "block"
    /\ \/ /\ \E done \in SUBSET Blocks :
                tag' = [b \in Blocks |-> IF b \in done THEN wanted ELSE tag[b]]
          /\ step' = "block_back"
          /\ UNCHANGED <<replies, way, result>>
       \/ Finish("error") /\ \E done \in SUBSET Blocks :
                tag' = [b \in Blocks |-> IF b \in done THEN wanted ELSE tag[b]]
    /\ UNCHANGED <<commands, wanted, readBack, attempt>>

\* Mutant of Verified: the last block decides.
Verified_Last(got) == got[3] = wanted

Verified(got) == \A b \in Blocks : got[b] = wanted

ReadBlocksBack ==
    /\ step = "block_back"
    /\ readBack' = tag
    /\ \/ Verified(tag) /\ Finish("ok")
       \/ Finish("error")
    /\ UNCHANGED <<tag, commands, wanted, attempt>>
-----------------------------------------------------------------------------
(* The adapter and the tag (external).                                     *)

\* An answer reaches the page while its connection is open.
Answer(line) ==
    replies' = IF OnLine /\ Head(commands).of = attempt
               THEN Append(replies, line) ELSE replies

\* The adapter carries out the next command, of an attempt that may be over.
CarryOut ==
    LET c == Head(commands) IN
    /\ commands # <<>> /\ commands' = Tail(commands)
    /\ CASE c.name = "HELLO" ->
              Answer([name |-> "READY", blocks |-> tag]) /\ UNCHANGED tag
         [] c.name = "READ" ->
              Answer([name |-> "DATA", blocks |-> tag]) /\ UNCHANGED tag
         [] c.name = "WRITE" ->
              \E done \in SUBSET Blocks, name \in {"OK", "ERR"} :
                 /\ tag' = [b \in Blocks |-> IF b \in done THEN c.payload ELSE tag[b]]
                 /\ Answer([name |-> name, blocks |-> tag'])
    /\ UNCHANGED <<way, step, wanted, readBack, result, attempt>>

\* The adapter ends a transfer of WebUSB without a line: with a piece of one when the
\* 8 s are over, or because it is unplugged.
EndTransfer ==
    /\ way = "web-usb" /\ Waiting /\ replies = <<>>
    /\ Finish("error")
    /\ UNCHANGED <<tag, commands, readBack, wanted, attempt>>

SwapTag(c) ==
    /\ tag' = Whole(c)
    /\ UNCHANGED <<commands, replies, way, step, wanted, readBack, result, attempt>>
-----------------------------------------------------------------------------
TagInit ==
    /\ tag = Whole(NoPayload) /\ commands = <<>> /\ replies = <<>>
    /\ way = "none" /\ step = "end" /\ wanted = NoPayload
    /\ readBack = Whole(NoPayload) /\ result = "none" /\ attempt = 0

PageStep == EncodePayload \/ WriteMemory \/ ReadLine \/ TimeOut \/ VerifyReadBack
BridgeStep == WriteBlocks \/ ReadBlocksBack

TagNext ==
    \/ \E w \in Ways, c \in Payloads : BeginWrite(w, c)
    \/ PageStep
    \/ BridgeStep
    \/ CarryOut \/ EndTransfer
    \/ \E c \in Contents : SwapTag(c)

\* The page goes on as long as it can, the API and the bridge answer.  Nothing
\* is assumed of the adapter.
TagFairness == WF_tagVars(PageStep) /\ WF_tagVars(BridgeStep)
TagSpec == TagInit /\ [][TagNext]_tagVars /\ TagFairness
-----------------------------------------------------------------------------
(* What must hold.                                                         *)

\* Success is shown only when every block that was read back after the writing
\* is the block that was to be written, however the adapter answered.
OkMeansReadBack == result = "ok" => \A b \in Blocks : readBack[b] = wanted

\* WebUSB waits for an adapter that says nothing.
SilentUsb == way = "web-usb" /\ Waiting /\ replies = <<>>

\* The form does not stay busy: every attempt ends, however silent the adapter, unless
\* it is WebUSB's, which has no timeout while nothing comes at all.
WriteEnds == []<>(result # "busy") \/ <>[]SilentUsb
=============================================================================
