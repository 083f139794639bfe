------------------------ MODULE CreateRequestProofs ------------------------
(* What CreateRequest keeps for every configuration and every input.         *)
EXTENDS CreateRequest, TLAPS

-----------------------------------------------------------------------------
(* Numbers *)

(* Any CPU limit in thousandths is shown as the cores it begins. *)
LEMMA CoresBounds == ASSUME NEW n \in Int, n > 0
                     PROVE Cores(n) \in Nat \ {0} /\ n <= 1000 * Cores(n) /\ 1000 * Cores(n) <= n + 999
  BY DEF Cores

(* Whole cores survive the page. *)
LEMMA WholeCores == ASSUME NEW n \in Int, n <= 0 \/ n % 1000 = 0
                    PROVE Millis(Cores(n)) = IF n <= 0 THEN 0 ELSE n
  BY DEF Cores, Millis

(* What the page sends in cores comes back in cores. *)
LEMMA CoresBack == ASSUME NEW n \in Int
                   PROVE Millis(Cores(Millis(n))) = Millis(n) /\ Cores(Millis(n)) = IF n <= 0 THEN 0 ELSE n
  BY DEF Cores, Millis

(* A default is positive and within its limit when the limit is positive. *)
LEMMA MinBounds == ASSUME NEW a \in Int, NEW b \in Int
                   PROVE Min2(a, b) \in {a, b} /\ Min2(a, b) <= a /\ Min2(a, b) <= b
  BY DEF Min2

(* Text is trimmed once. *)
LEMMA TrimTwice == ASSUME NEW text PROVE Trim(Trim(text)) = Trim(text)
  BY DEF Trim

(* A default that limits leave whole is whole. *)
LEMMA DefaultWhole == ASSUME NEW c, c.cpu \in Int, c.cpu % 1000 = 0 PROVE DefaultCPU(c) % 1000 = 0
  BY DEF DefaultCPU, Min2

(* A field that holds a number is taken as it is, any other one by its default. *)
LEMMA NumberKept == ASSUME NEW n \in Nat, NEW fallback PROVE n # Blank /\ Number(n, fallback) = n
  BY DEF Number, Blank, Junk
LEMMA NumberLeftOut == ASSUME NEW fallback PROVE Number(Blank, fallback) = fallback /\ Number(Junk, fallback) = fallback
  BY DEF Number

-----------------------------------------------------------------------------
(* Requests field by field *)

\* What handleWorkspaceCreate parses.
TextsParsed(f, r) ==
  /\ r.source = f.source /\ r.keys = f.keys /\ r.repo = Trim(f.repo) /\ r.http = Trim(f.http)
  /\ r.ref = IF f.source = "builtin_image" THEN "" ELSE f.ref
  /\ r.https = IF Trim(f.https) = "" THEN Trim(f.http) ELSE Trim(f.https)
CpuParsed(c, f, r) == r.cpu = IF f.cores # Blank THEN Millis(Number(f.cores, Cores(DefaultCPU(c))))
                                                 ELSE Number(f.millis, DefaultCPU(c))
NumbersParsed(c, f, r) == /\ r.port = Number(f.port, 0)
                          /\ r.memory = Number(f.memory, Min2(4096, c.memory))
                          /\ r.ttl = Number(f.ttl, Min2(480, c.ttl))

\* What CreateWorkspace makes of it.
TextsDefaulted(r, d) ==
  /\ d.source = IF r.source = "" THEN "builtin_image" ELSE r.source
  /\ d.ref = IF d.source = "builtin_image" THEN "" ELSE r.ref
  /\ d.repo = r.repo /\ d.keys = r.keys \ {""} /\ d.http = r.http
  /\ d.https = IF r.https = "" THEN r.http ELSE r.https
NumbersDefaulted(c, r, d) ==
  /\ d.port = r.port
  /\ d.cpu = IF r.cpu <= 0 THEN DefaultCPU(c) ELSE r.cpu
  /\ d.memory = IF r.memory <= 0 THEN Min2(4096, c.memory) ELSE r.memory
  /\ d.ttl = IF r.ttl <= 0 THEN Min2(480, c.ttl) ELSE r.ttl
AllFields(d) == d = [source |-> d.source, ref |-> d.ref, repo |-> d.repo, keys |-> d.keys, port |-> d.port,
                     http |-> d.http, https |-> d.https, cpu |-> d.cpu, memory |-> d.memory, ttl |-> d.ttl]

(* The request that the page's fields make. *)
LEMMA Parsed == ASSUME NEW c, NEW f
                PROVE LET r == FromForm(c, f)
                      IN TextsParsed(f, r) /\ CpuParsed(c, f, r) /\ NumbersParsed(c, f, r)
  BY Zenon DEF TextsParsed, CpuParsed, NumbersParsed, FromForm

(* The request that the service checks. *)
LEMMA Defaulted == ASSUME NEW c, NEW f
                   PROVE LET r == FromForm(c, f)
                             d == Defaults(c, r)
                         IN TextsDefaulted(r, d) /\ NumbersDefaulted(c, r, d) /\ AllFields(d)
<1>0. PICK r : r = FromForm(c, f)
  OBVIOUS
<1>d. PICK d : d = Defaults(c, r)
  OBVIOUS
<1> DEFINE source == IF r.source = "" THEN "builtin_image" ELSE r.source
           ref == IF source = "builtin_image" THEN "" ELSE r.ref
           https == IF r.https = "" THEN r.http ELSE r.https
           keys == r.keys \ {""}
           cpu == IF r.cpu <= 0 THEN DefaultCPU(c) ELSE r.cpu
           memory == IF r.memory <= 0 THEN Min2(4096, c.memory) ELSE r.memory
           ttl == IF r.ttl <= 0 THEN Min2(480, c.ttl) ELSE r.ttl
<1>1. r = [source |-> r.source, ref |-> r.ref, repo |-> r.repo, keys |-> r.keys, port |-> r.port,
           http |-> r.http, https |-> r.https, cpu |-> r.cpu, memory |-> r.memory, ttl |-> r.ttl]
  BY <1>0 DEF FromForm
<1>2. d = [r EXCEPT !.source = source, !.ref = ref, !.https = https, !.keys = keys,
                    !.cpu = cpu, !.memory = memory, !.ttl = ttl]
  BY <1>d DEF Defaults
<1> HIDE DEF source, ref, https, keys, cpu, memory, ttl
<1>3. d = [source |-> source, ref |-> ref, repo |-> r.repo, keys |-> keys, port |-> r.port,
           http |-> r.http, https |-> https, cpu |-> cpu, memory |-> memory, ttl |-> ttl]
  BY <1>1, <1>2
<1>4. /\ d.source = source /\ d.ref = ref /\ d.repo = r.repo /\ d.keys = keys /\ d.port = r.port
      /\ d.http = r.http /\ d.https = https /\ d.cpu = cpu /\ d.memory = memory /\ d.ttl = ttl
      /\ d = [source |-> d.source, ref |-> d.ref, repo |-> d.repo, keys |-> d.keys, port |-> d.port,
              http |-> d.http, https |-> d.https, cpu |-> d.cpu, memory |-> d.memory, ttl |-> d.ttl]
  BY <1>3
<1>5. TextsDefaulted(r, d) /\ NumbersDefaulted(c, r, d) /\ AllFields(d)
  BY <1>4 DEF TextsDefaulted, NumbersDefaulted, AllFields, source, ref, https, keys, cpu, memory, ttl
<1> QED BY <1>0, <1>d, <1>5

-----------------------------------------------------------------------------
(* The fields stay what they are *)

Numeric == {"port", "cores", "millis", "memory", "ttl"}

FormTyped == /\ cfg \in [cpu : Int, memory : Int, ttl : Int, first : Int, last : Int]
             /\ Numeric \subseteq DOMAIN form
             /\ \A field \in Numeric : form[field] \in Int
             /\ edits \in Nat

(* The first page has numbers in its number fields. *)
LEMMA TypedStarts == ASSUME CreateAssumption, Init PROVE FormTyped
<1>1. PICK env \in Configs : cfg = Load(env)
  BY DEF Init
<1>2. cfg \in [cpu : Int, memory : Int, ttl : Int, first : Int, last : Int]
  BY <1>1 DEF Load, CreateAssumption
<1>3. DefaultCPU(cfg) \in Int /\ Min2(4096, cfg.memory) \in Int /\ Min2(480, cfg.ttl) \in Int
  BY <1>2 DEF DefaultCPU, Min2
<1>4. Cores(DefaultCPU(cfg)) \in Int /\ Blank \in Int
  BY <1>3 DEF Cores, Blank
<1>5. form = NewForm(cfg) /\ edits = 0
  BY DEF Init
<1>6. Numeric \subseteq DOMAIN form
  BY <1>5 DEF NewForm, Numeric
<1>7. /\ form.port = Blank /\ form.cores = Cores(DefaultCPU(cfg)) /\ form.millis = Blank
      /\ form.memory = Min2(4096, cfg.memory) /\ form.ttl = Min2(480, cfg.ttl)
  BY <1>5 DEF NewForm
<1>8. \A field \in Numeric : form[field] \in Int
  BY <1>3, <1>4, <1>7 DEF Numeric
<1> QED BY <1>2, <1>5, <1>6, <1>8 DEF FormTyped

(* Fields parsed from numbers are numbers. *)
LEMMA ParsedTyped == ASSUME FormTyped
                     PROVE LET r == FromForm(cfg, form)
                           IN r.port \in Int /\ r.cpu \in Int /\ r.memory \in Int /\ r.ttl \in Int
<1>1. /\ form.port \in Int /\ form.cores \in Int /\ form.millis \in Int
      /\ form.memory \in Int /\ form.ttl \in Int
      /\ cfg.cpu \in Int /\ cfg.memory \in Int /\ cfg.ttl \in Int
  BY DEF FormTyped, Numeric
<1>2. DefaultCPU(cfg) \in Int /\ Min2(4096, cfg.memory) \in Int /\ Min2(480, cfg.ttl) \in Int
  BY <1>1 DEF DefaultCPU, Min2
<1>3. Cores(DefaultCPU(cfg)) \in Int
  BY <1>2 DEF Cores
<1>4. /\ Number(form.port, 0) \in Int /\ Number(form.memory, Min2(4096, cfg.memory)) \in Int
      /\ Number(form.ttl, Min2(480, cfg.ttl)) \in Int
      /\ Number(form.millis, DefaultCPU(cfg)) \in Int
      /\ Number(form.cores, Cores(DefaultCPU(cfg))) \in Int
  BY <1>1, <1>2, <1>3 DEF Number
<1>5. Millis(Number(form.cores, Cores(DefaultCPU(cfg)))) \in Int
  BY <1>4 DEF Millis
<1> QED BY <1>4, <1>5 DEF FromForm

(* Editing, submitting and the command line leave numbers in the number fields. *)
LEMMA TypedStays == ASSUME CreateAssumption, FormTyped, [Next]_vars PROVE FormTyped'
<1>1. CASE Edit
  <2>1. PICK field \in DOMAIN Values : \E value \in Values[field] : form' = [form EXCEPT ![field] = value]
    BY <1>1 DEF Edit
  <2>2. DOMAIN form' = DOMAIN form
    BY <2>1
  <2>3. ASSUME NEW f \in Numeric PROVE form'[f] \in Int
    BY <2>1 DEF FormTyped, CreateAssumption, Numeric
  <2> QED BY <1>1, <2>2, <2>3 DEF Edit, FormTyped
<1>2. CASE Submit
  <2> DEFINE r == FromForm(cfg, form)
  <2>1. r.port \in Int /\ r.cpu \in Int /\ r.memory \in Int /\ r.ttl \in Int
    BY ParsedTyped
  <2>2. Cores(r.cpu) \in Int /\ Blank \in Int
    BY <2>1 DEF Cores, Blank
  <2>3. form' = form \/ form' = ShownAgain(r)
    BY <1>2 DEF Submit
  <2>4. CASE form' = ShownAgain(r)
    BY <1>2, <2>1, <2>2, <2>4 DEF Submit, ShownAgain, FormTyped, Numeric
  <2> QED BY <1>2, <2>3, <2>4 DEF Submit, FormTyped
<1>3. CASE Command \/ UNCHANGED vars
  BY <1>3 DEF Command, vars, FormTyped
<1> QED BY <1>1, <1>2, <1>3 DEF Next

-----------------------------------------------------------------------------
(* What is accepted can run *)

(* A request that passes the checks is as the jobs need it. *)
LEMMA ValidCanRun == ASSUME NEW q, Valid(cfg, Defaults(cfg, q))
                     PROVE LET w == Accepted(Defaults(cfg, q))
                           IN WithinLimits(w) /\ GetsImage(w) /\ HasWayIn(w)
<1> DEFINE r == Defaults(cfg, q)
           w == Accepted(r)
<1>1. w.request = r /\ w.built = (r.source \in {"dockerfile", "nixpacks"}) /\ w.password = (r.keys = {})
  BY DEF Accepted
<1>2. WithinLimits(w)
  BY <1>1 DEF WithinLimits, Valid
<1>3. GetsImage(w)
  BY <1>1 DEF GetsImage, Valid, Sources
<1>4. HasWayIn(w)
  <2>1. r.keys = q.keys \ {""}
    BY DEF Defaults
  <2> QED BY <1>1, <2>1 DEF HasWayIn, Valid
<1> QED BY <1>2, <1>3, <1>4

(* Only a valid request is accepted, from the page or the command line. *)
LEMMA CanRunStays == ASSUME AcceptedCanRun, [Next]_vars PROVE AcceptedCanRun'
<1>1. ASSUME NEW q, Answer(Defaults(cfg, q)), cfg' = cfg PROVE AcceptedCanRun'
  BY <1>1, ValidCanRun DEF Answer, Refuse, AcceptedCanRun, WithinLimits, GetsImage, HasWayIn
<1>2. CASE Edit
  BY <1>2 DEF Edit, AcceptedCanRun
<1>3. CASE Submit
  BY <1>1, <1>3 DEF Submit
<1>4. CASE Command
  BY <1>1, <1>4 DEF Command, Refuse, AcceptedCanRun
<1>5. CASE UNCHANGED vars
  BY <1>5 DEF vars, AcceptedCanRun, WithinLimits, GetsImage, HasWayIn
<1> QED BY <1>2, <1>3, <1>4, <1>5 DEF Next

(* AcceptedCanRun: whatever the configuration, the form and the flags, an       *)
(* accepted request is within the limits, gets an image and leaves a way in.    *)
THEOREM AcceptedRuns == Spec => []AcceptedCanRun
<1>1. Init => AcceptedCanRun
  BY DEF Init, AcceptedCanRun
<1>2. AcceptedCanRun /\ [Next]_vars => AcceptedCanRun'
  BY CanRunStays
<1> QED BY <1>1, <1>2, PTL DEF Spec

-----------------------------------------------------------------------------
(* The page offers what it accepts *)

WholeLimits(c) == c.cpu % 1000 = 0 /\ c.cpu > 0 /\ c.memory > 0 /\ c.ttl > 0

(* The values of a new page lie within limits of whole cores. *)
LEMMA NewFormValid == ASSUME NEW c, c.cpu \in Int, c.memory \in Int, c.ttl \in Int, WholeLimits(c)
                      PROVE Valid(c, Defaults(c, FromForm(c, NewForm(c))))
<1>1. /\ DefaultCPU(c) \in 1..c.cpu /\ DefaultCPU(c) % 1000 = 0
      /\ Min2(4096, c.memory) \in 1..c.memory /\ Min2(480, c.ttl) \in 1..c.ttl
  BY DefaultWhole DEF WholeLimits, DefaultCPU, Min2
<1>2. /\ Cores(DefaultCPU(c)) \in Nat \ {0} /\ Millis(Cores(DefaultCPU(c))) = DefaultCPU(c)
  BY <1>1, CoresBounds, WholeCores
<1>3. PICK f : f = NewForm(c)
  OBVIOUS
<1>4. /\ f.source = "builtin_image" /\ f.keys = {} /\ f.port = Blank
      /\ f.cores = Cores(DefaultCPU(c)) /\ f.memory = Min2(4096, c.memory) /\ f.ttl = Min2(480, c.ttl)
  BY <1>3 DEF NewForm
<1>5. PICK r : r = FromForm(c, f)
  OBVIOUS
<1>6. TextsParsed(f, r) /\ CpuParsed(c, f, r) /\ NumbersParsed(c, f, r)
  BY <1>5, Parsed
<1>7. /\ r.source = "builtin_image" /\ r.keys = {} /\ r.port = 0 /\ r.cpu = DefaultCPU(c)
      /\ r.memory = Min2(4096, c.memory) /\ r.ttl = Min2(480, c.ttl)
  <2>1. f.memory \in Nat /\ f.ttl \in Nat /\ f.cores \in Nat
    BY <1>1, <1>2, <1>4
  <2>2. /\ f.cores # Blank /\ Number(f.cores, Cores(DefaultCPU(c))) = f.cores /\ Number(f.port, 0) = 0
        /\ Number(f.memory, Min2(4096, c.memory)) = f.memory /\ Number(f.ttl, Min2(480, c.ttl)) = f.ttl
    BY <1>4, <2>1, NumberKept, NumberLeftOut
  <2>3. r.source = "builtin_image" /\ r.keys = {}
    <3>1. r.source = f.source /\ r.keys = f.keys
      BY <1>6 DEF TextsParsed
    <3> QED BY <1>4, <3>1
  <2>6. r.port = 0
    BY <1>4, <1>6, <2>2 DEF NumbersParsed
  <2>4. r.cpu = Millis(Number(f.cores, Cores(DefaultCPU(c))))
    BY <1>6, <2>2 DEF CpuParsed
  <2>5. r.memory = Min2(4096, c.memory) /\ r.ttl = Min2(480, c.ttl)
    BY <1>4, <1>6, <2>2 DEF NumbersParsed
  <2> QED BY <1>2, <1>4, <2>2, <2>3, <2>4, <2>5, <2>6
<1>8. PICK d : d = Defaults(c, r)
  OBVIOUS
<1>9. TextsDefaulted(r, d) /\ NumbersDefaulted(c, r, d)
  BY <1>5, <1>8, Defaulted
<1>10. /\ d.source = "builtin_image" /\ d.keys = {} /\ d.port = 0 /\ d.cpu = DefaultCPU(c)
       /\ d.memory = Min2(4096, c.memory) /\ d.ttl = Min2(480, c.ttl)
  <2>1. d.source = "builtin_image" /\ d.keys = {}
    <3>1. d.source = (IF r.source = "" THEN "builtin_image" ELSE r.source) /\ d.keys = r.keys \ {""}
      BY <1>9 DEF TextsDefaulted
    <3> QED BY <1>7, <3>1
  <2> QED BY <1>1, <1>7, <1>9, <2>1 DEF NumbersDefaulted
<1>11. Valid(c, d)
  BY <1>1, <1>10 DEF Valid, Sources
<1> QED BY <1>3, <1>5, <1>8, <1>11

\* Until the user changes a field the page is as it was first shown, unless it was refused.
Untouched == edits = 0 /\ WholeLimits(cfg) => form = NewForm(cfg)

(* A page that is valid is not shown again. *)
LEMMA UntouchedStays == ASSUME FormTyped, Untouched, [Next]_vars PROVE Untouched'
<1>1. CASE Edit
  BY <1>1 DEF Edit, Untouched, FormTyped
<1>2. CASE Submit
  <2>1. ASSUME edits = 0, WholeLimits(cfg) PROVE form' = form
    <3>1. Valid(cfg, Defaults(cfg, FromForm(cfg, form)))
      BY <2>1, NewFormValid DEF Untouched, FormTyped
    <3> QED BY <1>2, <3>1 DEF Submit, Answer
  <2> QED BY <1>2, <2>1 DEF Submit, Untouched
<1>3. CASE Command \/ UNCHANGED vars
  BY <1>3 DEF Command, vars, Untouched
<1> QED BY <1>1, <1>2, <1>3 DEF Next

(* NewFormAccepted: for every configuration with positive limits and a CPU      *)
(* limit in whole cores the page is accepted as it is first shown.              *)
THEOREM NewPageAccepted == Spec => []NewFormAccepted
<1>1. Init => FormTyped /\ Untouched
  BY TypedStarts, CreateAssumption DEF Init, Untouched
<1>2. FormTyped /\ Untouched /\ [Next]_vars => FormTyped' /\ Untouched'
  BY TypedStays, UntouchedStays, CreateAssumption
<1>3. FormTyped /\ Untouched => NewFormAccepted
  BY NewFormValid DEF FormTyped, Untouched, NewFormAccepted, WholeLimits
<1> QED BY <1>1, <1>2, <1>3, PTL DEF Spec

-----------------------------------------------------------------------------
(* The page after a refusal *)

(* Blank and Junk are read as the default, like every other number below 1. *)
LEMMA DefaultTwice == ASSUME NEW n \in Int, NEW default \in Int
                      PROVE (IF Number(n, default) <= 0 THEN default ELSE Number(n, default))
                              = (IF n <= 0 THEN default ELSE n)
  BY DEF Number, Blank, Junk

(* A port is shown when there is one. *)
LEMMA PortShown == ASSUME NEW n \in Nat PROVE Number(IF n > 0 THEN n ELSE Blank, 0) = n
  BY DEF Number, Blank, Junk

(* What the page shows of a request. *)
TextsShown(r, g) == /\ g.source = IF r.source \in Sources THEN r.source ELSE "builtin_image"
                    /\ g.ref = r.ref /\ g.repo = r.repo /\ g.keys = r.keys
                    /\ g.http = r.http /\ g.https = r.https
NumbersShown(r, g) == /\ g.port = IF r.port > 0 THEN r.port ELSE Blank
                      /\ g.cores = Cores(r.cpu) /\ g.memory = r.memory /\ g.ttl = r.ttl
LEMMA Shown == ASSUME NEW r PROVE TextsShown(r, ShownAgain(r)) /\ NumbersShown(r, ShownAgain(r))
  BY Zenon DEF TextsShown, NumbersShown, ShownAgain

(* The texts of the page shown again ask for what the entered ones asked. *)
SameTexts(d, e) == /\ e.source = d.source /\ e.ref = d.ref /\ e.repo = d.repo
                   /\ e.keys = d.keys /\ e.http = d.http /\ e.https = d.https
LEMMA TextsKept == ASSUME NEW c, NEW f, f.source \in Sources \cup {""}
                   PROVE LET r == FromForm(c, f)
                         IN SameTexts(Defaults(c, r), Defaults(c, FromForm(c, ShownAgain(r))))
<1> PICK r, g, s, d, e : /\ r = FromForm(c, f) /\ g = ShownAgain(r) /\ s = FromForm(c, g)
                         /\ d = Defaults(c, r) /\ e = Defaults(c, s)
  OBVIOUS
<1>a. TextsParsed(f, r) /\ TextsParsed(g, s)
  BY Parsed
<1>b. TextsDefaulted(r, d) /\ TextsDefaulted(s, e)
  BY Defaulted
<1>c. TextsShown(r, g)
  BY Shown
<1>1. /\ r.source = f.source /\ g.source = (IF r.source \in Sources THEN r.source ELSE "builtin_image")
      /\ s.source = g.source
      /\ d.source = (IF r.source = "" THEN "builtin_image" ELSE r.source)
      /\ e.source = (IF s.source = "" THEN "builtin_image" ELSE s.source)
  BY <1>a, <1>b, <1>c, Zenon DEF TextsParsed, TextsDefaulted, TextsShown
<1>2. e.source = d.source
  BY <1>1 DEF Sources
<1>3. e.ref = d.ref
  <2>1. /\ r.ref = (IF f.source = "builtin_image" THEN "" ELSE f.ref)
        /\ s.ref = (IF g.source = "builtin_image" THEN "" ELSE g.ref) /\ g.ref = r.ref
        /\ d.ref = (IF d.source = "builtin_image" THEN "" ELSE r.ref)
        /\ e.ref = (IF e.source = "builtin_image" THEN "" ELSE s.ref)
    BY <1>a, <1>b, <1>c, Zenon DEF TextsParsed, TextsDefaulted, TextsShown
  <2> QED BY <1>1, <1>2, <2>1 DEF Sources
<1>4. e.repo = d.repo /\ e.keys = d.keys /\ e.http = d.http /\ s.http = r.http
  <2>1. /\ r.repo = Trim(f.repo) /\ g.repo = r.repo /\ s.repo = Trim(g.repo)
        /\ d.repo = r.repo /\ e.repo = s.repo
        /\ r.http = Trim(f.http) /\ g.http = r.http /\ s.http = Trim(g.http)
        /\ d.http = r.http /\ e.http = s.http
        /\ r.keys = f.keys /\ g.keys = r.keys /\ s.keys = g.keys
        /\ d.keys = r.keys \ {""} /\ e.keys = s.keys \ {""}
    BY <1>a, <1>b, <1>c, Zenon DEF TextsParsed, TextsDefaulted, TextsShown
  <2>2. Trim(Trim(f.repo)) = Trim(f.repo) /\ Trim(Trim(f.http)) = Trim(f.http)
    BY TrimTwice
  <2> QED BY <2>1, <2>2
<1>5. e.https = d.https
  <2>1. /\ r.https = (IF Trim(f.https) = "" THEN Trim(f.http) ELSE Trim(f.https))
        /\ g.https = r.https /\ g.http = r.http /\ r.http = Trim(f.http)
        /\ s.https = (IF Trim(g.https) = "" THEN Trim(g.http) ELSE Trim(g.https))
        /\ d.https = (IF r.https = "" THEN r.http ELSE r.https)
        /\ e.https = (IF s.https = "" THEN s.http ELSE s.https)
    BY <1>a, <1>b, <1>c, Zenon DEF TextsParsed, TextsDefaulted, TextsShown
  <2>2. Trim(r.https) = r.https /\ Trim(r.http) = r.http
    BY <2>1, TrimTwice
  <2> QED BY <1>4, <2>1, <2>2
<1>6. SameTexts(d, e)
  BY <1>1, <1>2, <1>3, <1>4, <1>5 DEF SameTexts
<1> QED BY <1>6

(* So do its numbers. *)
SameNumbers(d, e) == e.port = d.port /\ e.cpu = d.cpu /\ e.memory = d.memory /\ e.ttl = d.ttl
LEMMA NumbersKept ==
  ASSUME NEW c, NEW f, c.cpu \in Int, c.memory \in Int, c.ttl \in Int,
         f.port \in {Blank, Junk} \cup Nat, f.cores \in Int, f.memory \in Int, f.ttl \in Int,
         f.cores = Blank => f.millis = Blank /\ c.cpu % 1000 = 0
  PROVE LET r == FromForm(c, f)
        IN SameNumbers(Defaults(c, r), Defaults(c, FromForm(c, ShownAgain(r))))
<1> PICK r, g, s, d, e : /\ r = FromForm(c, f) /\ g = ShownAgain(r) /\ s = FromForm(c, g)
                         /\ d = Defaults(c, r) /\ e = Defaults(c, s)
  OBVIOUS
<1>a. CpuParsed(c, f, r) /\ NumbersParsed(c, f, r) /\ CpuParsed(c, g, s) /\ NumbersParsed(c, g, s)
  BY Parsed
<1>b. NumbersDefaulted(c, r, d) /\ NumbersDefaulted(c, s, e)
  BY Defaulted
<1>c. NumbersShown(r, g)
  BY Shown
<1>1. DefaultCPU(c) \in Int /\ Min2(4096, c.memory) \in Int /\ Min2(480, c.ttl) \in Int
  BY DEF DefaultCPU, Min2
<1>p. /\ r.port = Number(f.port, 0) /\ r.memory = Number(f.memory, Min2(4096, c.memory))
      /\ r.ttl = Number(f.ttl, Min2(480, c.ttl))
  BY <1>a DEF NumbersParsed
<1>q. /\ s.port = Number(g.port, 0) /\ s.memory = Number(g.memory, Min2(4096, c.memory))
      /\ s.ttl = Number(g.ttl, Min2(480, c.ttl))
  BY <1>a DEF NumbersParsed
<1>r. /\ d.port = r.port
      /\ d.cpu = (IF r.cpu <= 0 THEN DefaultCPU(c) ELSE r.cpu)
      /\ d.memory = (IF r.memory <= 0 THEN Min2(4096, c.memory) ELSE r.memory)
      /\ d.ttl = (IF r.ttl <= 0 THEN Min2(480, c.ttl) ELSE r.ttl)
  BY <1>b DEF NumbersDefaulted
<1>s. /\ e.port = s.port
      /\ e.cpu = (IF s.cpu <= 0 THEN DefaultCPU(c) ELSE s.cpu)
      /\ e.memory = (IF s.memory <= 0 THEN Min2(4096, c.memory) ELSE s.memory)
      /\ e.ttl = (IF s.ttl <= 0 THEN Min2(480, c.ttl) ELSE s.ttl)
  BY <1>b DEF NumbersDefaulted
<1>t. /\ g.port = (IF r.port > 0 THEN r.port ELSE Blank)
      /\ g.cores = Cores(r.cpu) /\ g.memory = r.memory /\ g.ttl = r.ttl
  BY <1>c DEF NumbersShown
<1>2. e.port = d.port
  <2>1. /\ r.port = Number(f.port, 0) /\ g.port = (IF r.port > 0 THEN r.port ELSE Blank)
        /\ s.port = Number(g.port, 0) /\ d.port = r.port /\ e.port = s.port
    BY <1>p, <1>q, <1>r, <1>s, <1>t
  <2>2. r.port \in Nat
    BY <2>1 DEF Number
  <2> QED BY <2>1, <2>2, PortShown
<1>3. e.memory = d.memory
  <2>1. r.memory \in Int
    BY <1>1, <1>p DEF Number
  <2>2. s.memory = Number(r.memory, Min2(4096, c.memory))
    BY <1>q, <1>t
  <2>3. PICK n \in Int, limit \in Int : n = r.memory /\ limit = Min2(4096, c.memory)
    BY <1>1, <2>1
  <2>4. (IF Number(n, limit) <= 0 THEN limit ELSE Number(n, limit)) = (IF n <= 0 THEN limit ELSE n)
    BY DefaultTwice
  <2> QED BY <1>r, <1>s, <2>2, <2>3, <2>4
<1>4. e.ttl = d.ttl
  <2>1. r.ttl \in Int
    BY <1>1, <1>p DEF Number
  <2>2. s.ttl = Number(r.ttl, Min2(480, c.ttl))
    BY <1>q, <1>t
  <2>3. PICK n \in Int, limit \in Int : n = r.ttl /\ limit = Min2(480, c.ttl)
    BY <1>1, <2>1
  <2>4. (IF Number(n, limit) <= 0 THEN limit ELSE Number(n, limit)) = (IF n <= 0 THEN limit ELSE n)
    BY DefaultTwice
  <2> QED BY <1>r, <1>s, <2>2, <2>3, <2>4
<1>5. e.cpu = d.cpu
  <2> DEFINE default == DefaultCPU(c)
             cores == Number(f.cores, Cores(default))
  <2>1. /\ r.cpu = (IF f.cores # Blank THEN Millis(cores) ELSE Number(f.millis, default))
        /\ d.cpu = (IF r.cpu <= 0 THEN default ELSE r.cpu)
        /\ e.cpu = (IF s.cpu <= 0 THEN default ELSE s.cpu)
    BY <1>a, <1>r, <1>s DEF CpuParsed
  <2>2. cores \in Int /\ Millis(cores) \in Int
    BY <1>1 DEF Number, Cores, Millis
  <2>3. f.cores = Blank => r.cpu = default /\ default % 1000 = 0
    BY <2>1, DefaultWhole, NumberLeftOut
  <2>4. r.cpu \in Int
    BY <1>1, <2>1, <2>2, <2>3
  <2>5. Cores(r.cpu) \in Nat
    BY <2>4, CoresBounds DEF Cores
  <2>6. s.cpu = Millis(Cores(r.cpu))
    <3>1. /\ g.cores = Cores(r.cpu)
          /\ s.cpu = (IF g.cores # Blank THEN Millis(Number(g.cores, Cores(default))) ELSE Number(g.millis, default))
      BY <1>a, <1>t DEF CpuParsed
    <3> QED BY <2>5, <3>1, NumberKept
  <2>7. CASE f.cores # Blank
    BY <2>1, <2>2, <2>6, <2>7, CoresBack
  <2>8. CASE f.cores = Blank
    BY <1>1, <2>1, <2>3, <2>6, <2>8, WholeCores
  <2> QED BY <2>7, <2>8
<1>6. SameNumbers(d, e)
  BY <1>2, <1>3, <1>4, <1>5 DEF SameNumbers
<1> QED BY <1>6

(* The page shown again asks for what was asked before. *)
LEMMA ShownAsks == ASSUME FormTyped, OnPage(form) PROVE Asks(ShownAgain(FromForm(cfg, form))) = Asks(form)
<1> PICK g, d, e : /\ g = ShownAgain(FromForm(cfg, form))
                   /\ d = Defaults(cfg, FromForm(cfg, form)) /\ e = Defaults(cfg, FromForm(cfg, g))
  OBVIOUS
<1>1. AllFields(d) /\ AllFields(e)
  BY Defaulted
<1>2. /\ cfg.cpu \in Int /\ cfg.memory \in Int /\ cfg.ttl \in Int
      /\ form.cores \in Int /\ form.memory \in Int /\ form.ttl \in Int
  BY DEF FormTyped, Numeric
<1>3. /\ form.source \in Sources \cup {""} /\ form.port \in {Blank, Junk} \cup Nat
      /\ form.cores = Blank => form.millis = Blank /\ cfg.cpu % 1000 = 0
  BY Zenon DEF OnPage
<1>4. SameTexts(d, e)
  BY <1>3, TextsKept
<1>5. SameNumbers(d, e)
  BY <1>2, <1>3, NumbersKept
<1>6. e = d
  BY <1>1, <1>4, <1>5, Zenon DEF AllFields, SameTexts, SameNumbers
<1> QED BY <1>6 DEF Asks

(* Only Submit refuses and changes the page; the page it shows asks the same. *)
LEMMA RefusalKeeps == ASSUME FormTyped, [Next]_vars, verdict' = "refused", OnPage(form)
                      PROVE Asks(form)' = Asks(form)
<1>1. CASE Edit
  BY <1>1 DEF Edit
<1>2. CASE Submit
  <2>1. form' = ShownAgain(FromForm(cfg, form)) /\ cfg' = cfg
    BY <1>2 DEF Submit
  <2> QED BY <2>1, ShownAsks DEF Asks
<1>3. CASE Command \/ UNCHANGED vars
  BY <1>3 DEF Command, vars, Asks
<1> QED BY <1>1, <1>2, <1>3 DEF Next

(* RefusalKeepsRequest: for every configuration and everything the page can     *)
(* send, correcting the refused field is enough to get what was asked.          *)
THEOREM RefusalsKeepRequests == Spec => RefusalKeepsRequest
<1>1. Init => FormTyped
  BY TypedStarts, CreateAssumption
<1>2. FormTyped /\ [Next]_vars => FormTyped'
  BY TypedStays, CreateAssumption
<1>3. FormTyped /\ [Next]_vars => [verdict' = "refused" /\ OnPage(form) => Asks(form)' = Asks(form)]_vars
  BY RefusalKeeps
<1> QED BY <1>1, <1>2, <1>3, PTL DEF Spec, RefusalKeepsRequest
=============================================================================
