-------------------------------- MODULE Admission ------------------------------
(***************************************************************************)
(* What is let in: may this program run on that host (frey-sandbox), does  *)
(* this path stay in the workspace, may this URL be fetched, this command  *)
(* run (frey-tools/src/builtin.rs), and may this skill be loaded           *)
(* (frey-context/src/skills.rs).  One question at a time; "asked" is the   *)
(* question with the answer the code gives.                                *)
(***************************************************************************)
EXTENDS Sandbox, Skills

CONSTANTS
  Specs,      \* what may be asked to run,
  Policies,   \* under which policies
  Paths,      \* paths a model may name,
  Scopes,     \* within which scopes, as they are written,
  Urls, HostLists,         \* URLs and the hosts that were granted,
  SkillFiles, SkillGrants  \* skills and what was granted when they were installed

ASSUME JobAssumption == Specs \subseteq ExecSpec /\ Policies \subseteq SandboxPolicy
ASSUME QuestionAssumption ==
  /\ Paths \subseteq RawPath /\ Scopes \subseteq SUBSET RawPath
  /\ Urls \subseteq [scheme : STRING, rest : Seq(STRING)]
  /\ SkillFiles \subseteq Seq([key : STRING, lists : SUBSET STRING])

VARIABLE asked

decisionsVars == <<asked>>
--------------------------------------------------------------------------------
Nothing == [about |-> "nothing"]

DecisionsInit == asked = Nothing

\* validate, then decide, for a host described as it is.
MayRun(spec, policy, host, accepted) ==
  asked' = [about |-> "program", spec |-> spec, policy |-> policy, host |-> host,
            accepted |-> accepted, verdict |-> Verdict(spec, policy, host, accepted)]

MayTouch(scope, raw) ==
  asked' = [about |-> "path", scope |-> scope, path |-> raw,
            allowed |-> InWorkspace(ScopeOf(scope), raw)]

MayFetch(hosts, url) ==
  LET allowed == UNION {HostPattern(h) : h \in hosts} IN
  asked' = [about |-> "url", url |-> url, granted |-> allowed,
            allowed |-> OnEgressAllowlist(allowed, url)]

MayExec(programs, argv) ==
  asked' = [about |-> "argv", argv |-> argv, granted |-> programs,
            allowed |-> AllowedProgram(programs, argv)]

Load(file, granted, trusted) ==
  asked' = [about |-> "skill", file |-> file, granted |-> granted,
            skill |-> ParseSkill(file, granted, trusted)]

AdmissionNext ==
  /\ asked = Nothing
  /\ \/ \E spec \in Specs, policy \in Policies, host \in Hosts, accepted \in BOOLEAN :
          MayRun(spec, policy, host, accepted)
     \/ \E scope \in Scopes, raw \in Paths : MayTouch(scope, raw)
     \/ \E hosts \in HostLists, url \in Urls : MayFetch(hosts, url)
     \/ \E programs \in SUBSET Names, argv \in {<<>>} \cup {<<p, q>> : p, q \in Names} :
          MayExec(programs, argv)
     \/ \E file \in SkillFiles, granted \in SkillGrants, trusted \in BOOLEAN :
          Load(file, granted, trusted)

AdmissionSpec == DecisionsInit /\ [][AdmissionNext]_decisionsVars
--------------------------------------------------------------------------------
\* "A process that runs unconfined after confinement was requested is precisely the
\* outcome the whole subsystem exists to prevent": nothing is called confined on a
\* kernel that would not apply it, nothing runs with less than it asked for unless the
\* operator accepted that and is told exactly what is missing, and a program that is not
\* on the allowlist, or carries a credential, does not run on any terms.
NeverQuietlyUnconfined ==
  asked.about = "program" =>
    LET verdict == asked.verdict
        enforced == AvailabilityOf(asked.host)
        starts == verdict.answer \in {"Confined", "Degraded"}
    IN  /\ starts => /\ enforced.usable
                     /\ asked.spec.program \in asked.policy.exec
                     /\ asked.spec.env \cap SecretNames = {}
        /\ verdict.answer = "Confined" /\ asked.host.os = "linux" =>
             asked.host.lsm /\ asked.host.abi >= NetworkAbi
        /\ verdict.answer = "Degraded" =>
             /\ asked.accepted
             /\ verdict.missing # {} /\ verdict.missing \cap enforced.controls = {}
             /\ "ProgramAllowlist" \notin verdict.missing
        /\ starts /\ asked.policy.copyOnWrite => "CopyOnWrite" \in verdict.missing

\* Where a path ends up once "." and ".." are followed; what climbs beyond its start
\* keeps its "..".
Along(walked, part) ==
  CASE part = "." -> walked
    [] part = ".." -> IF walked = <<>> \/ Last(walked) = ".." THEN Append(walked, "..")
                      ELSE Front(walked)
    [] OTHER -> Append(walked, part)
Walked(parts) ==
  LET upTo[i \in 0 .. Len(parts)] ==
        IF i = 0 THEN <<>> ELSE Along(upTo[i - 1], parts[i])
  IN  upTo[Len(parts)]
Resolve(raw) == [raw EXCEPT !.parts = Walked(@)]

\* The host a request for a URL goes to: what is left of the authority without
\* credentials and port.
Before(chars, text) ==
  LET places == {i \in 1 .. Len(text) : text[i] \in chars}
  IN  IF places = {} THEN text ELSE SubSeq(text, 1, Min(places) - 1)
After(char, text) ==
  LET places == {i \in 1 .. Len(text) : text[i] = char}
  IN  IF places = {} THEN text ELSE SubSeq(text, Max(places) + 1, Len(text))
HostReached(rest) ==
  LET host == Before({":"}, After("@", Before({"/", "?", "#"}, rest)))
  IN  [i \in DOMAIN host |-> Lower(host[i])]
GoesWhereGranted(url, hosts) == url.scheme = "https" /\ HostReached(url.rest) \in hosts

\* "A scope that appears to confine and does not is the worst kind of security bug": a
\* path that the validator accepts, followed to where it leads, stays in the workspace
\* and lies in a prefix that was granted, as the workspace or as absolute; a URL
\* that it accepts goes to a host that was granted, and a plain one to such a host is
\* accepted; a program that it accepts was named whole; and "a skill cannot grant itself
\* capabilities": one that is loaded asks for what was granted, and its text says no
\* more than what stands below its front matter.
NothingUngrantedPasses ==
  /\ asked.about = "path" /\ asked.allowed =>
       \E granted \in asked.scope :
         /\ ".." \notin Range(granted.parts) \cup Range(Resolve(asked.path).parts)
         /\ CoversLexically(Resolve(granted), Resolve(asked.path))
  /\ asked.about = "url" =>
       /\ asked.allowed => GoesWhereGranted(asked.url, asked.granted)
       /\ GoesWhereGranted(asked.url, asked.granted)
            /\ Range(asked.url.rest) \cap {"@", ":"} = {} => asked.allowed
  /\ asked.about = "argv" /\ asked.allowed => Head(asked.argv) \in asked.granted
  /\ asked.about = "skill" /\ asked.skill.loaded =>
       /\ asked.skill.requested \subseteq asked.granted
       /\ InstructionsOf(asked.skill).label = "Low"
       /\ \E closing \in 2 .. Len(asked.file) :
            /\ asked.file[1] = Fence /\ asked.file[closing] = Fence
            /\ \A i \in 2 .. closing - 1 : asked.file[i] # Fence
            /\ {"name", "description"} \subseteq {asked.file[i].key : i \in 1 .. closing}
            /\ \E i \in 1 .. closing : asked.file[i].lists = asked.skill.requested
            /\ \E i \in closing .. Len(asked.file) :
                 IsPrefix(asked.skill.body, SubSeq(asked.file, i + 1, Len(asked.file)))
================================================================================
