--------------------------------- MODULE Sandbox -------------------------------
(***************************************************************************)
(* May this program run here, and under what confinement?  The controls a  *)
(* policy needs (frey-core/src/sandbox.rs), what each host can enforce     *)
(* (frey-sandbox/src/probe.rs), the decision between them                  *)
(* (frey-sandbox/src/policy.rs), and the lexical check a tool makes of a   *)
(* path, a URL or an argument vector before it gets that far               *)
(* (frey-tools/src/builtin.rs).                                            *)
(*                                                                         *)
(* The mechanisms that confine a process are not in the repository: a      *)
(* decision is where its part ends.  Hosts are described, as the code      *)
(* does, not detected.  A raw path may hold "." and ".." components.       *)
(***************************************************************************)
EXTENDS Capabilities

CONSTANTS
  SecretNames,  \* variable names that look like a credential
  NoProgram     \* stands for the program of an empty argument vector

\* to_ascii_lowercase
Lower(char) == IF char = "A" THEN "a" ELSE char

Control == {"FilesystemRead", "FilesystemWrite", "NetworkEgress", "ProgramAllowlist",
            "MemoryLimit", "CpuLimit", "ProcessLimit", "WallClockLimit", "CopyOnWrite"}

\* What may be run, and what it may do there: everything is denied that is not listed.
RawPath == [absolute : BOOLEAN, parts : Seq(Names \cup {".", ".."})]
ExecSpec == [program : Names \cup {NoProgram}, cwd : RawPath, env : SUBSET STRING]
SandboxPolicy ==
  [fsRead : SUBSET RawPath, fsWrite : SUBSET RawPath, exec : SUBSET Names,
   copyOnWrite : BOOLEAN]

\* normalise: one leading "./" goes, and "." is the workspace.
Normalise(raw) ==
  IF ~raw.absolute /\ raw.parts # <<>> /\ raw.parts[1] = "."
  THEN [raw EXCEPT !.parts =
          IF Tail(@) = <<".">> THEN <<>> ELSE Tail(@)]
  ELSE raw

\* PathScope::covers
Covers(scope, raw) == \E p \in scope : CoversLexically(p, Normalise(raw))

\* PathScope::new refuses a prefix that can walk upward.
ScopeOf(raws) ==
  IF \E r \in raws : ".." \in Range(r.parts) THEN {} ELSE {Normalise(r) : r \in raws}

\* Fault: a path is only compared with the scope.
InWorkspaceLexically(scope, raw) == ~raw.absolute /\ Covers(scope, raw)
\* InWorkspace::check.  No path of ours is empty: the workspace is ".".
InWorkspace(scope, raw) ==
  ~raw.absolute /\ ".." \notin Range(raw.parts) /\ Covers(scope, raw)

\* HostPattern::new: a bare host, or none.  A URL and a host are sequences of characters.
HostPattern(host) ==
  IF host = <<>> \/ Range(host) \cap {"*", "/", ":"} # {} THEN {}
  ELSE {[i \in DOMAIN host |-> Lower(host[i])]}

\* Up to the path, the query or the fragment.
AuthorityOf(rest) ==
  SubSeq(rest, 1, SelectInSeq(rest \o <<"/">>, LAMBDA c : c \in {"/", "?", "#"}) - 1)

\* OnEgressAllowlist::check
OnEgressAllowlist(allowed, url) ==
  LET authority == AuthorityOf(url.rest)
  IN  /\ url.scheme = "https"
      /\ Range(authority) \cap {"@", ":"} = {}
      /\ [i \in DOMAIN authority |-> Lower(authority[i])] \in allowed

\* AllowedProgram::check
AllowedProgram(programs, argv) == argv # <<>> /\ argv[1] \in programs
--------------------------------------------------------------------------------
RequiredControls(policy) ==
  {"FilesystemRead", "FilesystemWrite", "NetworkEgress",
   "MemoryLimit", "WallClockLimit", "ProcessLimit"}
  \cup (IF policy.exec # {} THEN {"ProgramAllowlist"} ELSE {})
  \cup (IF policy.copyOnWrite THEN {"CopyOnWrite"} ELSE {})

\* EnforcedSet::missing_from
MissingFrom(enforced, wanted) == wanted \ enforced

Baseline == {"ProgramAllowlist", "MemoryLimit", "WallClockLimit", "ProcessLimit"}

NetworkAbi == 4

\* LandlockAbi::controls
AbiControls(abi) ==
  (IF abi >= 1 THEN {"FilesystemRead", "FilesystemWrite"} ELSE {})
  \cup (IF abi >= NetworkAbi THEN {"NetworkEgress"} ELSE {})

\* Fault: the level the kernel reports is taken for what it applies.
LinuxAssumed(abi, lsmEnabled) ==
  [usable |-> TRUE, controls |-> AbiControls(abi) \cup Baseline]
\* A kernel that has Landlock applies it only if it was enabled at boot.
LinuxAvailability(abi, lsmEnabled) ==
  [usable |-> TRUE,
   controls |-> Baseline \cup (IF lsmEnabled THEN AbiControls(abi) ELSE {})]
MacosAvailability ==
  [usable |-> TRUE,
   controls |-> Baseline \cup {"FilesystemRead", "FilesystemWrite", "NetworkEgress"}]
WindowsAvailability(elevated) ==
  [usable |-> TRUE,
   controls |-> Baseline \cup {"FilesystemRead", "FilesystemWrite"}
                \cup (IF elevated THEN {"NetworkEgress"} ELSE {})]
Unusable == [usable |-> FALSE, controls |-> {}]

\* What a host is, and what the code says of it.
Hosts ==
  [os : {"linux"}, abi : 0 .. 6, lsm : BOOLEAN]
  \cup [os : {"macos"}] \cup [os : {"windows"}, elevated : BOOLEAN] \cup [os : {"none"}]
AvailabilityOf(host) ==
  CASE host.os = "linux" -> LinuxAvailability(host.abi, host.lsm)
    [] host.os = "macos" -> MacosAvailability
    [] host.os = "windows" -> WindowsAvailability(host.elevated)
    [] OTHER -> Unusable
--------------------------------------------------------------------------------
\* policy::validate: TRUE, or refused as InvalidPolicy.
Consistent(spec, policy) ==
  /\ spec.program # NoProgram
  /\ spec.program \in policy.exec
  /\ Covers(policy.fsWrite, spec.cwd) \/ Covers(policy.fsRead, spec.cwd)
  /\ spec.env \cap SecretNames = {}

CannotEnforce(missing) == [answer |-> "CannotEnforce", missing |-> missing]
Confined == [answer |-> "Confined", missing |-> {}]
Degraded(missing) == [answer |-> "Degraded", missing |-> missing]

\* policy::decide
Decide(policy, availability, allowDegraded) ==
  LET required == RequiredControls(policy)
      missing == MissingFrom(availability.controls, required)
  IN  IF ~availability.usable THEN CannotEnforce(required)
      ELSE IF missing = {} THEN Confined
      ELSE IF ~allowDegraded THEN CannotEnforce(missing)
      ELSE Degraded(missing)

Verdict(spec, policy, host, allowDegraded) ==
  IF ~Consistent(spec, policy) THEN [answer |-> "InvalidPolicy", missing |-> {}]
  ELSE Decide(policy, AvailabilityOf(host), allowDegraded)
================================================================================
