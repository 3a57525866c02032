---- MODULE Settings ----
(***************************************************************************)
(* The configuration file of the bridge and what becomes of it: the lines  *)
(* are parsed and validated when the server starts, and each session's     *)
(* config is made from them and the arguments of create.  A line is a      *)
(* token: blank, malformed, or a key with a value whose text is a number,  *)
(* perhaps with a fraction or a unit, or a word.                           *)
(***************************************************************************)
EXTENDS Integers, SequencesExt

CONSTANTS KiB,      \* 1024, or less in a small instance
          BuiltIn   \* the defaults in the code, one for each key

ByteKeys == {"max_read", "max_output"}
PlainIntegerKeys == {"max_concurrency", "stdout_overflow_retry_tolerance",
                     "stderr_tail_buffer_size"}
SecondsKeys == {"timeout_seconds", "startup_timeout_seconds", "turn_cancel_timeout_seconds",
                "local_process_terminate_timeout_seconds", "remote_ssh_cleanup_timeout_seconds"}
NumberKeys == ByteKeys \cup PlainIntegerKeys \cup SecondsKeys
KnownKeys == NumberKeys \cup {"approval_mode"}
ApprovalModes == {"elicitation", "compatible"}

\* A unit may be written either way, in any case.
Multiplier == [b |-> 1, kb |-> KiB, kib |-> KiB, mb |-> KiB * KiB, mib |-> KiB * KiB,
               gb |-> KiB * KiB * KiB, gib |-> KiB * KiB * KiB]

\* The values a line may have.  Durations are counted in half seconds.
Tokens == [word : STRING, n : Nat, fraction : BOOLEAN, unit : STRING]
LineTokens == [form : {"blank", "malformed", "entry"}, key : STRING, value : Tokens]
Number(n, fraction, unit) == [word |-> "", n |-> n, fraction |-> fraction, unit |-> unit]
Word(w) == [word |-> w, n |-> 0, fraction |-> FALSE, unit |-> ""]
Blank == [form |-> "blank", key |-> "", value |-> Word("")]
Malformed == [form |-> "malformed", key |-> "", value |-> Word("")]
Entry(k, v) == [form |-> "entry", key |-> k, value |-> v]

Refused == [refused |-> TRUE]
IsRefused(r) == "refused" \in DOMAIN r

(***************************************************************************)
(* _parse_yaml_mapping                                                     *)
(***************************************************************************)
WellFormed(k, v) ==
  \/ k = "approval_mode"
  \/ k \in PlainIntegerKeys /\ v.word = "" /\ ~v.fraction /\ v.unit = ""
  \/ k \in SecondsKeys /\ v.word = "" /\ v.unit = ""
  \/ k \in ByteKeys /\ v.word = "" /\ ~v.fraction /\ v.unit \in DOMAIN Multiplier \cup {""}

Converted(k, v) == CASE k = "approval_mode" -> v.word
                     [] k \in PlainIntegerKeys -> v.n
                     [] k \in SecondsKeys -> 2 * v.n + (IF v.fraction THEN 1 ELSE 0)
                     [] k \in ByteKeys -> v.n * Multiplier[IF v.unit = "" THEN "b" ELSE v.unit]

With(f, k, v) == [x \in DOMAIN f \cup {k} |-> IF x = k THEN v ELSE f[x]]

\* Mutant: a second line for a key replaces the first.
ParseLineAgain(result, l) ==
  IF IsRefused(result) THEN Refused
  ELSE IF l.form = "blank" THEN result
  ELSE IF l.form = "entry" /\ l.key \in KnownKeys /\ WellFormed(l.key, l.value)
       THEN With(result, l.key, Converted(l.key, l.value))
       ELSE Refused

\* One line: a blank one is skipped, one that is malformed, unknown, repeated
\* or of the wrong kind refuses the file.
ParseLine(result, l) ==
  IF IsRefused(result) THEN Refused
  ELSE IF l.form = "blank" THEN result
  ELSE IF /\ l.form = "entry" /\ l.key \in KnownKeys \ DOMAIN result
          /\ WellFormed(l.key, l.value)
       THEN With(result, l.key, Converted(l.key, l.value))
       ELSE Refused

\* What the first lines of a file come to.
Parsed(lines) ==
  LET result[n \in 0..Len(lines)] == IF n = 0 THEN <<>> ELSE ParseLine(result[n - 1], lines[n])
  IN result

ParseMapping(lines) == Parsed(lines)[Len(lines)]

(***************************************************************************)
(* load_defaults                                                           *)
(***************************************************************************)
Valid(k, v) == CASE k = "approval_mode" -> v \in ApprovalModes
                 [] k = "stdout_overflow_retry_tolerance" -> v >= 0
                 [] OTHER -> v > 0

\* The code's own defaults would pass.
ASSUME SettingsAssumption ==
  /\ KiB \in Nat \ {0}
  /\ DOMAIN BuiltIn = KnownKeys
  /\ \A k \in NumberKeys : BuiltIn[k] \in Int
  /\ \A k \in KnownKeys : Valid(k, BuiltIn[k])

\* Where the file comes from: the environment names it, or it lies in a source
\* checkout, or there is none.  found says what is there.
Places == [named : BOOLEAN, checkout : BOOLEAN, found : {"nothing", "unreadable", "text"}]

LoadDefaults(place, lines) ==
  LET raw == ParseMapping(lines)
      looked == place.named \/ place.checkout
  IN CASE place.named /\ place.found = "nothing" -> Refused            \* _config_path
       [] ~place.named /\ (~looked \/ place.found = "nothing") -> BuiltIn
       [] looked /\ place.found = "unreadable" -> Refused
       [] OTHER -> IF IsRefused(raw) \/ \E k \in DOMAIN raw : ~Valid(k, raw[k]) THEN Refused
                   ELSE [k \in KnownKeys |-> IF k \in DOMAIN raw THEN raw[k] ELSE BuiltIn[k]]

(***************************************************************************)
(* create_codebuddy_session: the config of a session                       *)
(***************************************************************************)
\* The keys that an argument of create overrides, and the keys that only the
\* server or a prompt looks at.
Overridable == {"approval_mode", "startup_timeout_seconds", "max_read", "max_output"}
ServerKeys == {"max_concurrency", "timeout_seconds"}

SessionConfig(defaults, arguments) ==
  [k \in KnownKeys \ ServerKeys |-> IF k \in DOMAIN arguments THEN arguments[k] ELSE defaults[k]]

\* validate_config, as far as the settings go
ValidateConfig(config) ==
  /\ config["approval_mode"] \in ApprovalModes
  /\ config["stdout_overflow_retry_tolerance"] >= 0
  /\ \A k \in DOMAIN config \ {"approval_mode", "stdout_overflow_retry_tolerance"} : config[k] > 0
====
