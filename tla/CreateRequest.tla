--------------------------- MODULE CreateRequest ---------------------------
(* What becomes of a request for a workspace: the new-workspace page of      *)
(* internal/web, shown again with what was entered when the service refuses, *)
(* the flags of "cheapspace workspace new", and Service.CreateWorkspace,     *)
(* which fills in defaults, checks the limits of the configuration and       *)
(* decides on the password and on the first job.  Lifecycle starts from what *)
(* is accepted here.                                                         *)
EXTENDS Integers

CONSTANTS Configs,   \* environments: [cpu, memory, ttl, first, last : Int], first and last the ports
          Values,    \* what users enter, per field of the form
          MaxEdits   \* bound on the fields a user changes

ASSUME CreateAssumption ==
  /\ Configs \subseteq [cpu : Int, memory : Int, ttl : Int, first : Int, last : Int]
  /\ \A field \in DOMAIN Values \cap {"port", "cores", "millis", "memory", "ttl"} : Values[field] \subseteq Int
  /\ MaxEdits \in Nat

Blank == -1000       \* a number field left empty
Junk  == -1001       \* a number field that holds no number

VARIABLES cfg,       \* config.Load
          form,      \* the fields of the page
          edits,     \* fields changed so far
          verdict,   \* "none", "refused" or "accepted"
          workspace  \* what the accepted request asks the jobs to build
vars == <<cfg, form, edits, verdict, workspace>>

Sources == {"builtin_image", "image_ref", "dockerfile", "nixpacks"}

Min2(a, b) == IF a < b THEN a ELSE b
Trim(text) == IF text = " " THEN "" ELSE text

\* config.Load corrects a port range that ends before it starts.
Load(env) == [env EXCEPT !.last = IF env.last < env.first THEN env.first ELSE env.last]

-----------------------------------------------------------------------------
(* The page *)

Number(raw, fallback) == IF raw \in {Blank, Junk} THEN fallback ELSE raw

\* millicoresToCores: rounded up.
Cores(millis) == IF millis <= 0 THEN 0 ELSE (millis + 999) \div 1000
Millis(cores) == IF cores <= 0 THEN 0 ELSE cores * 1000

\* Mutant: the default is not held to the limit.
FixedCPU(c) == 2000

DefaultCPU(c) == Min2(2000, c.cpu)

\* handleWorkspaceNew.
NewForm(c) == [source |-> "builtin_image", ref |-> "", repo |-> "", keys |-> {}, port |-> Blank,
               http |-> "", https |-> "", cores |-> Cores(DefaultCPU(c)), millis |-> Blank,
               memory |-> Min2(4096, c.memory), ttl |-> Min2(480, c.ttl)]

\* handleWorkspaceCreate: the fields as numbers and trimmed texts.
FromForm(c, f) ==
  [source |-> f.source,
   ref    |-> IF f.source = "builtin_image" THEN "" ELSE f.ref,
   repo   |-> Trim(f.repo), keys |-> f.keys, port |-> Number(f.port, 0), http |-> Trim(f.http),
   https  |-> IF Trim(f.https) = "" THEN Trim(f.http) ELSE Trim(f.https),
   cpu    |-> IF f.cores # Blank THEN Millis(Number(f.cores, Cores(DefaultCPU(c))))
                                 ELSE Number(f.millis, DefaultCPU(c)),
   memory |-> Number(f.memory, Min2(4096, c.memory)),
   ttl    |-> Number(f.ttl, Min2(480, c.ttl))]

\* Mutant: the page comes back without the port.
ShownWithoutPort(r) == [source |-> r.source, ref |-> r.ref, repo |-> r.repo, keys |-> r.keys,
                        port |-> Blank, http |-> r.http, https |-> r.https,
                        cores |-> Cores(r.cpu), millis |-> Blank, memory |-> r.memory, ttl |-> r.ttl]

\* The page after a refusal: an unknown source selects the first option, a port of 0 or less is left out.
ShownAgain(r) == [source |-> IF r.source \in Sources THEN r.source ELSE "builtin_image",
                  ref |-> r.ref, repo |-> r.repo, keys |-> r.keys,
                  port |-> IF r.port > 0 THEN r.port ELSE Blank, http |-> r.http, https |-> r.https,
                  cores |-> Cores(r.cpu), millis |-> Blank, memory |-> r.memory, ttl |-> r.ttl]

-----------------------------------------------------------------------------
(* workspaceNewCommand: a flag that is not given has a default of its own *)

\* flag.Parse: a numeric flag that holds no number ends the command.
Parses(f) == \A flag \in {"port", "cores", "memory", "ttl"} : f[flag] # Junk

FromFlags(f) ==
  [source |-> f.source, ref |-> f.ref, repo |-> Trim(f.repo), keys |-> f.keys,
   port |-> Number(f.port, 0), http |-> Trim(f.http), https |-> Trim(f.https),
   cpu |-> Millis(Number(f.cores, 2)), memory |-> Number(f.memory, 4096), ttl |-> Number(f.ttl, 480)]

-----------------------------------------------------------------------------
(* Service.CreateWorkspace *)

Defaults(c, r) ==
  LET source == IF r.source = "" THEN "builtin_image" ELSE r.source
  IN [r EXCEPT !.source = source,
               !.ref = IF source = "builtin_image" THEN "" ELSE r.ref,
               !.https = IF r.https = "" THEN r.http ELSE r.https,
               !.keys = r.keys \ {""},
               !.cpu = IF r.cpu <= 0 THEN DefaultCPU(c) ELSE r.cpu,
               !.memory = IF r.memory <= 0 THEN Min2(4096, c.memory) ELSE r.memory,
               !.ttl = IF r.ttl <= 0 THEN Min2(480, c.ttl) ELSE r.ttl]

\* Mutant: a Nixpacks request without a repository passes.
ValidWithoutRepo(c, r) == /\ "word" \notin r.keys /\ r.source \in Sources
                          /\ r.source \in {"image_ref", "dockerfile"} => Trim(r.ref) # ""
                          /\ r.cpu \in 1..c.cpu /\ r.memory \in 1..c.memory /\ r.ttl \in 1..c.ttl
                          /\ r.port = 0 \/ r.port \in c.first..c.last

\* normalizeSSHKeys and validateInput; "word" is a line of fewer than two fields.
Valid(c, r) == /\ "word" \notin r.keys
               /\ r.source \in Sources
               /\ r.source \in {"image_ref", "dockerfile"} => Trim(r.ref) # ""
               /\ r.source = "nixpacks" => r.repo # ""
               /\ r.cpu \in 1..c.cpu /\ r.memory \in 1..c.memory /\ r.ttl \in 1..c.ttl
               /\ r.port = 0 \/ r.port \in c.first..c.last

\* The rows that CreateWorkspace inserts, as far as the jobs and the owner read them.
Accepted(r) == [request |-> r, password |-> r.keys = {}, built |-> r.source \in {"dockerfile", "nixpacks"}]

NoWorkspace == Accepted(FromFlags(NewForm([cpu |-> 0, memory |-> 0, ttl |-> 0])))

Refuse == verdict' = "refused" /\ workspace' = NoWorkspace
Answer(r) == IF Valid(cfg, r) THEN verdict' = "accepted" /\ workspace' = Accepted(r) ELSE Refuse

-----------------------------------------------------------------------------
Init == /\ \E env \in Configs : cfg = Load(env)
        /\ form = NewForm(cfg) /\ edits = 0
        /\ verdict = "none" /\ workspace = NoWorkspace

Edit == /\ edits < MaxEdits /\ edits' = edits + 1
        /\ \E field \in DOMAIN Values : \E value \in Values[field] : form' = [form EXCEPT ![field] = value]
        /\ verdict' = "none" /\ workspace' = NoWorkspace
        /\ UNCHANGED cfg

\* POST /workspaces.
Submit == LET r == FromForm(cfg, form)
          IN /\ verdict # "accepted"
             /\ Answer(Defaults(cfg, r))
             /\ form' = IF verdict' = "refused" THEN ShownAgain(r) ELSE form
             /\ UNCHANGED <<cfg, edits>>

\* The command line with the same fields given as flags.
Command == /\ verdict = "none"
           /\ \/ Parses(form) /\ Answer(Defaults(cfg, FromFlags(form)))
              \/ ~Parses(form) /\ Refuse
           /\ UNCHANGED <<cfg, form, edits>>

Next == Edit \/ Submit \/ Command
Spec == Init /\ [][Next]_vars

-----------------------------------------------------------------------------
(* Properties *)

(* An accepted request, from the page or the command line and with whatever      *)
(* defaults, stays within the configured limits and ports, gets an image (its    *)
(* first job builds one from the Dockerfile or the repository that is there, or  *)
(* Provision takes the built-in one or the one named), and leaves its owner a    *)
(* way in: a key, or else a generated password.                                  *)
WithinLimits(w) == /\ w.request.cpu \in 1..cfg.cpu /\ w.request.memory \in 1..cfg.memory
                   /\ w.request.ttl \in 1..cfg.ttl
                   /\ w.request.port = 0 \/ w.request.port \in cfg.first..cfg.last
GetsImage(w) == \/ w.request.source = "builtin_image" /\ ~w.built
                \/ w.request.source = "image_ref" /\ ~w.built /\ Trim(w.request.ref) # ""
                \/ w.request.source = "dockerfile" /\ w.built /\ Trim(w.request.ref) # ""
                \/ w.request.source = "nixpacks" /\ w.built /\ w.request.repo # ""
HasWayIn(w) == w.password # (\E key \in w.request.keys : key \notin {"", "word"})
AcceptedCanRun == verdict = "accepted" => WithinLimits(workspace) /\ GetsImage(workspace) /\ HasWayIn(workspace)

(* The page offers values it accepts: submitted as it is shown first, it is not  *)
(* refused, for every configuration with a limit of whole cores.                 *)
NewFormAccepted ==
  edits = 0 /\ cfg.cpu % 1000 = 0 /\ cfg.cpu > 0 /\ cfg.memory > 0 /\ cfg.ttl > 0 =>
    Valid(cfg, Defaults(cfg, FromForm(cfg, form)))

(* A refusal loses nothing: the page that is shown again asks for what was asked *)
(* before, so correcting the one bad field is enough.  Only what the page cannot *)
(* send is replaced: another source, a port below 1, CPU in thousandths of cores.*)
Asks(f) == Defaults(cfg, FromForm(cfg, f))
OnPage(f) == /\ f.source \in Sources \cup {""} /\ f.port \in {Blank, Junk} \cup Nat
             /\ f.cores = Blank => f.millis = Blank /\ cfg.cpu % 1000 = 0
RefusalKeepsRequest == [][verdict' = "refused" /\ OnPage(form) => Asks(form)' = Asks(form)]_vars
=============================================================================
