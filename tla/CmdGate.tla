------------------------------- MODULE CmdGate -------------------------------
(***************************************************************************)
(* The command gate of an SSH session (internal/sshproxy/cmdgate.go) and   *)
(* the two goroutines that copy through it (pipeSession).  One passes the  *)
(* user's keys to the device and judges every line at Enter; the other     *)
(* passes the device's output to the user, mirrors the line it shows and   *)
(* sends the enable or sudo password when the device asks for it.  They    *)
(* share the gate's fields under a mutex that each takes for a part of     *)
(* what it does.                                                           *)
(*                                                                         *)
(* A key is a word, CR, LF or DEL; output is words, prompts, NL and BS.    *)
(* The device is outside the program: it reads keys in order and answers   *)
(* as IOS or a Linux shell does.                                           *)
(***************************************************************************)
EXTENDS CiscoCli

CONSTANTS
    Words,            \* what users type; Secret is the credential itself
    Secret,
    Allow, Deny,      \* the command lists of the session
    EnableSecret,     \* the target has a privileged account
    PortalPassword,   \* the user's password is known to the session
    Devices,          \* "ios", "linux"
    Opens,            \* the prompts the credential is right for: "enable", "sudo"
    Controls,         \* the keys besides words in use
    MaxKeys, MaxChunk, MaxTries   \* bounds

Keys == Words \cup Controls
Prompts == {">", "#", "$", "password:", "[sudo]"}

\* A word is text without a sign that ends a prompt and without a control key.
ASSUME GateAssumption ==
    /\ Words \cap (Prompts \cup {"", "NL", "BS", "CR", "LF", "DEL", "^C"}) = {}
    /\ Secret \in Words /\ Controls \subseteq {"CR", "LF", "DEL"}
    /\ Devices \subseteq {"ios", "linux"} /\ Opens \subseteq {"enable", "sudo"}
    /\ EnableSecret \in BOOLEAN /\ PortalPassword \in BOOLEAN
    /\ {MaxKeys, MaxChunk, MaxTries} \subseteq Nat

VARIABLES
    gate,      \* the gate's fields
    input,     \* the goroutine that reads the user
    output,    \* the goroutine that reads the device
    up, down,  \* written to the device and not read by it; by it, and not yet read
    device,
    ending,    \* "no", "scheduled" (scheduleSessionEnd) or "closed" (closeSession)
    ran,       \* the last line the device ran at a command prompt
    keys       \* keys typed so far

vars == <<gate, input, output, up, down, device, ending, ran, keys>>

\* Who ended a line: the user's Enter, judged or not, or the gate.
Authors == {"judged", "ignored", "auto", "forced"}

\* What is written to the device.  An Enter tells who wrote it and whether the
\* line it ends was settled when it was decided on: for the user's, that the
\* device had shown all of the line; for the gate's, that no Enter of the user
\* was still to be written.
Sent == [key : Keys \cup {"^C", "CR"}, by : Authors, settled : BOOLEAN]
Typed(key) == [key |-> key, by |-> "judged", settled |-> FALSE]
Enter(by, settled) == [key |-> "CR", by |-> by, settled |-> settled]

Credential == EnableSecret \/ PortalPassword

Front(s) == SubSeq(s, 1, Len(s) - 1)
Has(s, token) == \E i \in 1 .. Len(s) : s[i] = token
EndsWith(s, token) == Len(s) > 0 /\ s[Len(s)] = token

\* To the device, unless its channel is closed.
Write(items) == up' = IF ending = "closed" THEN up ELSE up \o items

-----------------------------------------------------------------------------
(* The device's output.                                                    *)

ResetEnableFlow_StillExpects(g) ==
    [g EXCEPT !.injectEnableOnEnter = FALSE, !.enableInjected = FALSE]

\* resetEnableFlow.
ResetEnableFlow(g) ==
    [g EXCEPT !.expectEnablePass = FALSE, !.injectEnableOnEnter = FALSE,
              !.enableInjected = FALSE]

\* A line that ends with # or > is a prompt and tells the mode.
AtPrompt(g) ==
    IF EndsWith(g.devLine, "#") THEN [ResetEnableFlow(g) EXCEPT !.execPrivileged = TRUE]
    ELSE IF EndsWith(g.devLine, ">")
    THEN [(IF g.expectEnablePass THEN ResetEnableFlow(g) ELSE g) EXCEPT !.execPrivileged = FALSE]
    ELSE g

\* One token of the output, mirrored.
Mirrored(g, token) ==
    CASE token = "NL" -> [AtPrompt(g) EXCEPT !.devLine = << >>]
      [] token = "BS" -> [g EXCEPT !.devLine = IF @ = << >> THEN @ ELSE Front(@)]
      [] OTHER -> [g EXCEPT !.devLine = Append(@, token)]

\* The gate after each token of a chunk.
MirroredBy(chunk) ==
    LET f[i \in 0 .. Len(chunk)] == IF i = 0 THEN gate ELSE Mirrored(f[i - 1], chunk[i])
    IN  f

\* noteOutput up to the search for a password prompt.
MirroredAll(chunk) == AtPrompt(MirroredBy(chunk)[Len(chunk)])

\* noteOutput, of one chunk of what the device wrote.
NoteOutput ==
    \E n \in 1 .. MaxChunk :
        LET g == MirroredAll(SubSeq(down, 1, n))
            asks == Has(g.devLine, "password:") \/ Has(g.devLine, "[sudo]")
            enable == asks /\ g.expectEnablePass /\ ~g.execPrivileged /\ Credential
                      /\ ~g.enableInjected
            sudo == Has(g.devLine, "[sudo]") /\ PortalPassword
        IN  /\ output.pc = "read" /\ n <= Len(down) /\ ending # "closed"
            /\ gate' = [g EXCEPT !.ignoreLine = @ \/ asks,
                                 !.injectEnableOnEnter = @ \/ enable \/ sudo,
                                 !.expectEnablePass = @ \/ sudo,
                                 !.enableInjected = @ /\ ~sudo]
            /\ output' = [pc |-> IF enable \/ sudo THEN "inject" ELSE "read"]
            /\ down' = SubSeq(down, n + 1, Len(down))
            /\ UNCHANGED <<input, up, device, ending, ran, keys>>

\* tryAutoInjectEnable, after the lock was given back.
TryAutoInjectEnable ==
    /\ output.pc = "inject"
    /\ output' = [pc |-> IF gate.injectEnableOnEnter THEN "send" ELSE "read"]
    /\ gate' = [gate EXCEPT !.injectEnableOnEnter = FALSE]
    /\ UNCHANGED <<input, up, down, device, ending, ran, keys>>

\* sendEnableSecret decides and notes that it sends ...
MaySend(force) ==
    Credential /\ ~gate.execPrivileged /\ (~force => ~gate.enableInjected /\ ~gate.recent)

Sending == [gate EXCEPT !.enableInjected = TRUE, !.recent = TRUE, !.ignoreLine = TRUE]

SendAuto ==
    /\ output.pc = "send"
    /\ \/ MaySend(FALSE) /\ gate' = Sending /\ output' = [pc |-> "write"]
       \/ ~MaySend(FALSE) /\ output' = [pc |-> "read"] /\ UNCHANGED gate
    /\ UNCHANGED <<input, up, down, device, ending, ran, keys>>

\* The user's Enter has been judged and is about to be written.
Entering == {"leave", "pass", "end"}

\* ... and writes the secret and an Enter, without the lock.
WriteAuto ==
    /\ output.pc = "write"
    /\ Write(<<Typed(Secret), Enter("auto", input.pc \notin Entering)>>)
    /\ output' = [pc |-> "read"]
    /\ UNCHANGED <<gate, input, down, device, ending, ran, keys>>

\* lastEnableInject is 800 milliseconds ago.
DebounceEnds ==
    /\ gate.recent /\ gate' = [gate EXCEPT !.recent = FALSE]
    /\ UNCHANGED <<input, output, up, down, device, ending, ran, keys>>

-----------------------------------------------------------------------------
(* The user's keys.                                                        *)

Reading == [pc |-> "read", key |-> "", cmd |-> << >>, by |-> "judged", settled |-> FALSE]

\* Write is called with a key.  At the # prompt the secret itself is swallowed.
\* (A LF with no CR before it is an Enter as CR is, and left out.)
TypeKey ==
    \E k \in Keys :
        /\ input.pc = "read" /\ keys < MaxKeys /\ ending # "closed"
        /\ k = "LF" => gate.skipNextLF
        /\ keys' = keys + 1
        /\ input' = IF gate.execPrivileged /\ Credential /\ k = Secret THEN input
                    ELSE [input EXCEPT !.pc = "key", !.key = k]
        /\ UNCHANGED <<gate, output, up, down, device, ending, ran>>

\* waitingForEnablePassword.
Waiting == Credential /\ ~gate.execPrivileged /\ gate.expectEnablePass

\* The LF of a CR LF.
SkipLF ==
    /\ input.pc = "key" /\ input.key = "LF" /\ gate.skipNextLF
    /\ gate' = [gate EXCEPT !.skipNextLF = FALSE]
    /\ input' = Reading
    /\ UNCHANGED <<output, up, down, device, ending, ran, keys>>

\* Enter, to the line or (while a password is awaited) to the secret.
PressEnter ==
    /\ input.pc = "key" /\ input.key \in {"CR", "LF"}
    /\ input.key = "LF" => ~gate.skipNextLF
    /\ gate' = [gate EXCEPT !.skipNextLF = @ \/ input.key = "CR"]
    /\ input' = [input EXCEPT !.pc = IF Waiting THEN "force" ELSE "line", !.key = ""]
    /\ UNCHANGED <<output, up, down, device, ending, ran, keys>>

PassKey_Always ==
    /\ input.pc = "key" /\ input.key \notin {"CR", "LF"}
    /\ input' = Reading
    /\ Write(<<Typed(input.key)>>)
    /\ gate' = [gate EXCEPT !.userTyped =
           IF input.key # "DEL" THEN Append(@, input.key)
           ELSE IF @ = << >> THEN @ ELSE Front(@)]
    /\ UNCHANGED <<output, down, device, ending, ran, keys>>

\* handlePasswordKeystroke swallows other keys while a password is awaited;
\* otherwise they go to the device and are remembered.
PassKey ==
    /\ input.pc = "key" /\ input.key \notin {"CR", "LF"}
    /\ input' = Reading
    /\ \/ Waiting /\ UNCHANGED <<gate, up>>
       \/ /\ ~Waiting
          /\ Write(<<Typed(input.key)>>)
          /\ gate' = [gate EXCEPT !.userTyped =
                 IF input.key # "DEL" THEN Append(@, input.key)
                 ELSE IF @ = << >> THEN @ ELSE Front(@)]
    /\ UNCHANGED <<output, down, device, ending, ran, keys>>

\* sendEnableSecret(true).
SendForced ==
    /\ input.pc = "force"
    /\ \/ MaySend(TRUE) /\ gate' = Sending /\ input' = [input EXCEPT !.pc = "write"]
       \/ ~MaySend(TRUE) /\ input' = Reading /\ UNCHANGED gate
    /\ UNCHANGED <<output, up, down, device, ending, ran, keys>>

WriteForced ==
    /\ input.pc = "write"
    /\ Write(<<Typed(Secret), Enter("forced", TRUE)>>)
    /\ input' = Reading
    /\ UNCHANGED <<gate, output, down, device, ending, ran, keys>>

\* The line after the last prompt on it.
AfterPrompt(line) ==
    LET cut == {i \in 1 .. Len(line) : line[i] \in {">", "#", "$"}}
        last == CHOOSE i \in cut : \A j \in cut : j <= i
    IN  IF cut = {} THEN line ELSE SubSeq(line, last + 1, Len(line))

\* currentCommand: what the device shows, or what was typed if it shows nothing.
CurrentCommand ==
    IF AfterPrompt(gate.devLine) # << >> THEN AfterPrompt(gate.devLine) ELSE gate.userTyped

\* Nothing is on its way between the gate and the device.
Quiet == up = << >> /\ down = << >> /\ output.pc = "read"

IsEnableCommand(line) == Canonical[line] = <<"enable">>

\* shouldEndSession, but for "exit", which depends on the mode.
IsSessionEndCommand(line) == Canonical[line] \in {<<w>> : w \in {"logout", "logoff", "quit", "disconnect"}}

\* What handleLineEnd does with the line once it has let go of the lock.
NextOf(cmd) ==
    CASE cmd # << >> /\ ~CommandAllowed(cmd, Allow, Deny) -> "refuse"
      [] cmd # << >> /\ CommandAllowed(cmd, Allow, Deny) /\ IsEnableCommand(cmd) /\ Credential -> "arm"
      [] OTHER -> "leave"

\* handleLineEnd up to the unlock.
LineEnd ==
    LET inject == gate.injectEnableOnEnter /\ Credential
        cmd == CurrentCommand
    IN  /\ input.pc = "line"
        /\ gate' = [gate EXCEPT !.ignoreLine = FALSE, !.userTyped = << >>]
        /\ input' = IF inject THEN Reading
                    ELSE [input EXCEPT !.pc = IF gate.ignoreLine THEN "pass" ELSE NextOf(cmd),
                                       !.by = IF gate.ignoreLine THEN "ignored" ELSE "judged",
                                       !.cmd = IF gate.ignoreLine THEN << >> ELSE cmd, !.settled = Quiet]
        /\ UNCHANGED <<output, up, down, device, ending, ran, keys>>

\* A refused line: resetLineMirror, ...
Refuse ==
    /\ input.pc = "refuse"
    /\ gate' = [gate EXCEPT !.devLine = << >>, !.userTyped = << >>, !.ignoreLine = FALSE,
                            !.injectEnableOnEnter = FALSE]
    /\ input' = [input EXCEPT !.pc = "cancel"]
    /\ UNCHANGED <<output, up, down, device, ending, ran, keys>>

Cancel_Silent ==
    /\ input.pc = "cancel" /\ input' = Reading
    /\ UNCHANGED <<gate, output, up, down, device, ending, ran, keys>>

\* ... then the device is told to drop it.
Cancel ==
    /\ input.pc = "cancel"
    /\ Write(<<Typed("^C")>>)
    /\ input' = Reading
    /\ UNCHANGED <<gate, output, down, device, ending, ran, keys>>

\* "enable" with a credential at hand: the password prompt is awaited.
Arm ==
    /\ input.pc = "arm"
    /\ gate' = [gate EXCEPT !.expectEnablePass = TRUE, !.enableInjected = FALSE, !.devLine = << >>]
    /\ input' = [input EXCEPT !.pc = "leave"]
    /\ UNCHANGED <<output, up, down, device, ending, ran, keys>>

\* The mode is looked at again for "exit".
Leave ==
    LET ends == input.cmd # << >> /\
                (IsSessionEndCommand(input.cmd) \/
                 (Canonical[input.cmd] = <<"exit">> /\ ~gate.execPrivileged))
    IN  /\ input.pc = "leave"
        /\ input' = [input EXCEPT !.pc = IF ends THEN "end" ELSE "pass"]
        /\ UNCHANGED <<gate, output, up, down, device, ending, ran, keys>>

Pass ==
    /\ input.pc = "pass"
    /\ Write(<<Enter(input.by, input.settled)>>)
    /\ input' = Reading
    /\ UNCHANGED <<gate, output, down, device, ending, ran, keys>>

\* scheduleSessionEnd.
PassAndEnd ==
    /\ input.pc = "end"
    /\ Write(<<Enter(input.by, input.settled)>>)
    /\ ending' = IF ending = "no" THEN "scheduled" ELSE ending
    /\ input' = Reading
    /\ UNCHANGED <<gate, output, down, device, ran, keys>>

-----------------------------------------------------------------------------
(* The end of the session.                                                 *)

\* closeSession: both channels.  What was on its way is not followed further.
Close == ending' = "closed" /\ up' = << >> /\ down' = << >>

\* onSessionEnd, 400 milliseconds later.
EndSession ==
    /\ ending = "scheduled" /\ Close
    /\ UNCHANGED <<gate, input, output, device, ran, keys>>

\* The user's side ends, by himself or because the channels were closed.
UserLeaves ==
    /\ input.pc = "read"
    /\ input' = [Reading EXCEPT !.pc = "gone"] /\ Close
    /\ UNCHANGED <<gate, output, device, ran, keys>>

\* The device's side ends likewise.
DeviceEnds ==
    /\ output.pc = "read"
    /\ ending = "closed" \/ (device.mode = "gone" /\ down = << >>)
    /\ output' = [pc |-> "gone"] /\ Close
    /\ UNCHANGED <<gate, input, device, ran, keys>>

-----------------------------------------------------------------------------
(* The device.                                                             *)

Prompt == [user |-> ">", exec |-> "#", enable |-> "password:", shell |-> "$", sudo |-> "[sudo]"]
Asking == {"enable", "sudo"}

\* Where it is after a line, in the modes that run commands.
AfterLine(mode, line) ==
    LET c == Canonical[line]
    IN  CASE c \in {<<"exit">>, <<"logout">>, <<"quit">>} -> {"gone"}
          [] mode = "user" /\ c = <<"enable">> -> {"enable"}
          [] mode = "exec" /\ c = <<"disable">> -> {"user"}
          [] mode = "shell" /\ line # << >> /\ line[1] = "sudo" -> {"sudo", "shell"}
          [] OTHER -> {mode}

\* ... and after an attempt at a password: in, asked again, or back.
AfterPassword(mode, line, tries) ==
    LET in == IF mode = "enable" THEN "exec" ELSE "shell"
        back == IF mode = "enable" THEN "user" ELSE "shell"
    IN  IF line = <<Secret>> /\ mode \in Opens THEN in
        ELSE IF tries + 1 < MaxTries THEN mode ELSE back

ToMode(m, tries) ==
    /\ device' = [mode |-> m, line |-> << >>, tries |-> tries]
    /\ down' = IF m = "gone" THEN Append(down, "NL") ELSE down \o <<"NL", Prompt[m]>>

\* It reads a key and echoes it, or runs the line at Enter.
DeviceReads ==
    LET x == Head(up)
        m == device.mode
        line == device.line
        back == IF m = "sudo" THEN "shell" ELSE IF m = "enable" THEN "user" ELSE m
    IN  /\ up # << >> /\ m # "gone"
        /\ up' = Tail(up)
        /\ \/ /\ x.key \in Words
              /\ device' = [device EXCEPT !.line = Append(@, x.key)]
              /\ down' = IF m \in Asking THEN down ELSE Append(down, x.key)
              /\ UNCHANGED ran
           \/ /\ x.key = "DEL"
              /\ device' = [device EXCEPT !.line = IF @ = << >> THEN @ ELSE Front(@)]
              /\ down' = IF m \in Asking \/ line = << >> THEN down ELSE Append(down, "BS")
              /\ UNCHANGED ran
           \/ x.key = "^C" /\ ToMode(back, 0) /\ UNCHANGED ran
           \/ /\ x.key \in {"CR", "LF"} /\ m \in Asking
              /\ LET n == AfterPassword(m, line, device.tries)
                 IN  ToMode(n, IF n = m THEN device.tries + 1 ELSE 0)
              /\ UNCHANGED ran
           \/ /\ x.key \in {"CR", "LF"} /\ m \notin Asking
              /\ \E n \in AfterLine(m, line) : ToMode(n, 0)
              /\ ran' = [line |-> line, by |-> x.by, settled |-> x.settled]
        /\ UNCHANGED <<gate, input, output, ending, keys>>

-----------------------------------------------------------------------------
Init ==
    /\ gate = [devLine |-> << >>, userTyped |-> << >>, ignoreLine |-> FALSE,
               skipNextLF |-> FALSE, expectEnablePass |-> FALSE,
               injectEnableOnEnter |-> FALSE, execPrivileged |-> FALSE,
               enableInjected |-> FALSE, recent |-> FALSE]
    /\ input = Reading /\ output = [pc |-> "read"]
    /\ up = << >>
    /\ \E m \in {"user", "exec", "shell"} :
           /\ (IF m = "shell" THEN "linux" ELSE "ios") \in Devices
           /\ device = [mode |-> m, line |-> << >>, tries |-> 0]
           /\ down = <<Prompt[m]>>
    /\ ending = "no" /\ keys = 0
    /\ ran = [line |-> << >>, by |-> "judged", settled |-> FALSE]

OutputStep == NoteOutput \/ TryAutoInjectEnable \/ SendAuto \/ WriteAuto \/ DeviceEnds

InputStep ==
    \/ SkipLF \/ PressEnter \/ PassKey \/ SendForced \/ WriteForced \/ LineEnd
    \/ Refuse \/ Cancel \/ Arm \/ Leave \/ Pass \/ PassAndEnd

Next ==
    \/ OutputStep \/ InputStep \/ UserLeaves
    \/ TypeKey \/ DebounceEnds \/ EndSession \/ DeviceReads

Spec == Init /\ [][Next]_vars

-----------------------------------------------------------------------------
(* Properties.                                                             *)

GateType ==
    [devLine : Seq(Words \cup Prompts), userTyped : Seq(Words), ignoreLine : BOOLEAN,
     skipNextLF : BOOLEAN, expectEnablePass : BOOLEAN, injectEnableOnEnter : BOOLEAN,
     execPrivileged : BOOLEAN, enableInjected : BOOLEAN, recent : BOOLEAN]

\* Every variable has its type; the mirrored line is one line: no line end is in it.
TypeOK ==
    /\ gate \in GateType
    /\ input \in [pc : {"read", "key", "force", "write", "line", "refuse", "cancel", "arm",
                        "leave", "pass", "end", "gone"},
                  key : Keys \cup {""}, cmd : Seq(Words \cup Prompts), by : Authors, settled : BOOLEAN]
    /\ output \in [pc : {"read", "inject", "send", "write", "gone"}]
    /\ up \in Seq(Sent) /\ down \in Seq(Words \cup Prompts \cup {"NL", "BS"})
    /\ device \in [mode : DOMAIN Prompt \cup {"gone"}, line : Seq(Words), tries : 0 .. MaxTries]
    /\ ending \in {"no", "scheduled", "closed"} /\ keys \in 0 .. MaxKeys
    /\ ran \in [line : Seq(Words), by : Authors, settled : BOOLEAN]

\* A line that was judged while the device showed all of it does not run when
\* the lists refuse it, be it abbreviated or not.  (At an empty line nothing
\* runs, whatever the lists say.)
RefusedNeverRuns ==
    ran.by = "judged" /\ ran.settled /\ ran.line # << >>
        => CommandAllowed(ran.line, Allow, Deny)

\* A network device is never sent the secret behind something the user typed:
\* what the gate's own Enter runs at a command prompt is the secret alone --
\* unless the user's Enter had been judged and not yet written when the gate
\* answered a prompt, and so comes too late for the line before the secret.
SecretStandsAlone ==
    device.mode \in {"user", "exec"} /\ ran.by \in {"auto", "forced"} /\ ran.settled
        => ran.line = <<Secret>>

\* Once a network device is back at a command prompt and nothing is on its way,
\* the user's keys are no longer kept from it.
KeysPass ==
    Quiet /\ ending # "closed" /\ input.pc = "read" /\ device.mode \in {"user", "exec"}
        => ~Waiting

=============================================================================
