----------------------------- MODULE ConfigLoad -----------------------------
(***************************************************************************)
(* AppConfig::load (crates/api/src/config.rs): the file, the environment,  *)
(* the boot profile taken from the device pool, the overrides of all       *)
(* profiles, the validation; and the device pool that AppState::new makes  *)
(* of the result.  All of it is pure.                                      *)
(*                                                                         *)
(* A profile is a record of texts: name, cookie (user_agent is handled     *)
(* like it) and device_id (for the fields of device).  A config has port,  *)
(* pool, profile, startup, url and table; numbers and switches that the    *)
(* environment may set are all treated like port.  Texts are trimmed.      *)
(*                                                                         *)
(* What may be missing is an Option, what may also be malformed an Option  *)
(* of an Option: a deployment has two files, custom (FQRS_CONFIG_PATH) and *)
(* standard (configs/config.yaml), and the environment variables.          *)
(***************************************************************************)
EXTENDS Options, Integers, Sequences, FiniteSetsExt

CONSTANTS
  Texts,           \* the trimmed ones a file or a variable may hold
  DefaultProfile   \* DeviceProfile::default()

Blank == ""

ProfileData == [name : Texts, cookie : Texts, device_id : Texts]

ConfigData ==
  [port : Nat, pool : Seq(ProfileData), profile : ProfileData,
   startup : Option(Texts), url : Option(Texts), table : Texts]

Deployment ==
  [custom : Option(Option(ConfigData)), standard : Option(Option(ConfigData)),
   port : Option(Nat), startup : Option(Texts), fqrs_db_url : Option(Texts),
   db_url : Option(Texts), table : Option(Texts), cookie : Option(Texts),
   device : Option(Option(ProfileData))]

ASSUME ConfigAssumption ==
  {Blank, "fq_chapter_cache"} \subseteq Texts /\ DefaultProfile \in ProfileData

DefaultConfig ==
  [port |-> 9999, pool |-> <<>>, profile |-> DefaultProfile, startup |-> {},
   url |-> {}, table |-> "fq_chapter_cache"]

\* load_from_disk; nothing when the file that counts is malformed.
LoadFromDisk(d) == UnwrapOr(Or(d.custom, d.standard), {DefaultConfig})

\* set_string, set_optional_string
SetString(target, value) == UnwrapOr(value \ {Blank}, target)

SetOptionalString(target, value) ==
  IF value = {} THEN target ELSE value \ {Blank}

\* apply_env; a number that cannot be parsed counts as missing.
ApplyEnv(c, d) ==
  LET url == SetOptionalString(c.url, d.fqrs_db_url)
  IN  [c EXCEPT
         !.port = UnwrapOr(d.port, @),
         !.startup = SetOptionalString(@, d.startup),
         !.url = IF url = {} THEN SetOptionalString(url, d.db_url) ELSE url,
         !.table = SetString(@, d.table)]

-----------------------------------------------------------------------------
\* resolve_bootstrap_profile, as a position in the pool.
Bootstrap(c) ==
  LET named == {i \in DOMAIN c.pool : c.pool[i].name \in c.startup \ {Blank}}
  IN  IF c.pool = <<>> THEN {} ELSE {IF named = {} THEN 1 ELSE Min(named)}

InheritMissing(profile, fallback) ==
  [field \in DOMAIN profile |->
     IF profile[field] = Blank THEN fallback[field] ELSE profile[field]]

\* inherit_device_pool_defaults
Inherit(c) ==
  IF Bootstrap(c) = {} THEN c
  ELSE LET bootstrap == c.pool[Unwrap(Bootstrap(c))]
       IN  [c EXCEPT !.profile = IF @ = DefaultProfile THEN bootstrap
                                 ELSE InheritMissing(@, bootstrap)]

\* DeviceProfile::apply_overrides: the cookie's own variable, then the JSON.
Overridden(profile, d) ==
  LET own == [profile EXCEPT !.cookie = UnwrapOr(d.cookie \ {Blank}, @)]
  IN  IF d.device = {} THEN own
      ELSE InheritMissing(Unwrap(Unwrap(d.device)), own)

\* apply_profile_overrides_from_env, all profiles alike; nothing when the
\* JSON is malformed.
ApplyOverrides(c, d) ==
  IF d.device = {{}} THEN {}
  ELSE {[c EXCEPT !.profile = Overridden(@, d),
                  !.pool = [i \in DOMAIN @ |-> Overridden(@[i], d)]]}

ValidProfile(profile) == profile.cookie # Blank /\ profile.device_id # Blank

\* validate
Valid(c) ==
  /\ c.port # 0 /\ c.table # Blank
  /\ ValidProfile(c.profile)
  /\ \A i \in DOMAIN c.pool : ValidProfile(c.pool[i])

\* Slip: the overrides come first, and no profile is the default then.
ConfiguredLate(c, d) ==
  {Inherit(o) : o \in ApplyOverrides(ApplyEnv(c, d), d)}

Configured(c, d) == ApplyOverrides(Inherit(ApplyEnv(c, d)), d)

\* AppConfig::load: the config, unless an error ends the process.
Load(d) ==
  {c \in UNION {Configured(file, d) : file \in LoadFromDisk(d)} : Valid(c)}

-----------------------------------------------------------------------------
\* DevicePoolManager::new, of that config.
Booted(c) ==
  INSTANCE DevicePool WITH
    PoolSize <- Len(c.pool), Profiles <- [i \in 0 .. Len(c.pool) - 1 |-> c.pool[i + 1]],
    BootProfiles <- {c.profile}, StartupNames <- {UnwrapOr(c.startup, Blank)},
    NoName <- Blank, RotateCooldownMs <- 0, MaxTime <- 1, clock <- 1,
    active_profile <- c.profile, active_index <- 0, last_rotate_at_ms <- 0

BootIndex(c) ==
  Booted(c)!ResolveActiveIndex(c.profile, UnwrapOr(c.startup, Blank))
=============================================================================
