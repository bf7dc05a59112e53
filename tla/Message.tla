-------------------------------- MODULE Message --------------------------------
(***************************************************************************)
(* The way of one text from the keyboard of a client to the screen of the  *)
(* visual server: the client writes it between the quotes of a json as it  *)
(* is, the process server parses the json, cleans the text, removes        *)
(* duplicate words and writes the rest between quotes again, and the       *)
(* visual server parses that.                                              *)
(***************************************************************************)
EXTENDS TextProcessing, Json

CONSTANT
    Typed       \* lines: bytes, do they make a json that can be held, what they
                \* mean, is a number in them too large

(* A char of a std::string is any signed byte. *)
ASSUME MessageAssumption ==
    Char = -128..127 /\ \A line \in Typed : line.bytes \in Seq(0..255)

VARIABLES
    typed,      \* the line
    shown       \* what the visual server prints

messageVars == <<vars, typed, shown>>

-----------------------------------------------------------------------------
(* {"text":"..."} *)
TextKey == <<116, 101, 120, 116>>
Wrapped(bytes) == <<123, 34>> \o TextKey \o <<34, 58, 34>> \o bytes \o <<34, 125>>

(* From unsigned bytes to the chars of a std::string, and back. *)
Signed(bytes) == [k \in 1..Len(bytes) |-> IF bytes[k] > 127 THEN bytes[k] - 256 ELSE bytes[k]]
Unsigned(chars) == [k \in 1..Len(chars) |-> chars[k] % 256]

MessageInit ==
    /\ typed \in Typed /\ shown = <<>>
    /\ input = <<>> /\ text = <<>> /\ i = 0 /\ errorsFound = 0
    /\ prevWordBeg = 0 /\ words = {} /\ resStr = <<>>
    /\ pc = "typed"

(* An exception in a reading thread ends the program. *)
ProcessServerParses ==
    LET member == StringMember(parse(Wrapped(typed.bytes)), TextKey) IN
    /\ pc = "typed"
    /\ IF member.ok
       THEN pc' = "clean" /\ input' = Signed(member.string) /\ text' = input'
       ELSE pc' = "killed" /\ UNCHANGED <<input, text>>
    /\ UNCHANGED <<i, errorsFound, prevWordBeg, words, resStr, typed, shown>>

ProcessServerCleans == Next /\ UNCHANGED <<typed, shown>>

VisualServerParses ==
    LET member == StringMember(parse(Wrapped(Unsigned(resStr))), TextKey) IN
    /\ pc = "done"
    /\ IF member.ok
       THEN pc' = "shown" /\ shown' = member.string
       ELSE pc' = "visual server killed" /\ UNCHANGED shown
    /\ UNCHANGED <<input, text, i, errorsFound, prevWordBeg, words, resStr, typed>>

MessageNext == ProcessServerParses \/ ProcessServerCleans \/ VisualServerParses

(* A thread goes on with a message until it has dealt with it. *)
MessageSpec ==
    MessageInit /\ [][MessageNext]_messageVars /\ WF_messageVars(ProcessServerCleans)

-----------------------------------------------------------------------------
MessageTypeOK ==
    /\ pc = "clean" \/ pc = "words" \/ pc = "done" => TypeOK
    /\ shown \in Seq(0..255)
    /\ pc \in {"typed", "clean", "words", "done", "killed", "shown", "visual server killed"}

(* A text without quotes and backslashes reaches the screen as it was      *)
(* passed on, though it is parsed once more: nothing that cleaning and     *)
(* removing words leave can disturb the json of the visual server, not     *)
(* even the remains of a character beyond ASCII (ProcessServer.cpp:56,     *)
(* VisualServer.cpp:14-16).                                                *)
PlainTextIsShown ==
    pc \in {"shown", "visual server killed"} /\ {Quote, Backslash} \cap Range(text) = {} =>
        pc = "shown" /\ shown = resStr

(* The two loops over the text of a message end (ProcessServer.cpp:11, 38). *)
LoopsEnd == pc = "clean" ~> pc = "done"
=============================================================================
