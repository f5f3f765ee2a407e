--------------------------- MODULE SettingsProofs ---------------------------
(***************************************************************************)
(* Proofs about Settings: what a launch makes of file and environment, and *)
(* what the saves of the learned address leave in the file.                *)
(***************************************************************************)
EXTENDS Settings, TLAPS

-----------------------------------------------------------------------------
(* Configurations. *)

\* The values a setter of config.c lets through.
Allowed(key, v) ==
    /\ key = Port => v \in 0..U16Max
    /\ key = Backlog => v \in 0..IntMax
    /\ key \in {Period, Heartbeat} => v \in 0..U32Max
    /\ key = Profile => v = "swbt-pro"
    /\ key \in {Explicit, Learned} => v \in {NoAddress} \union AddressTexts

IsConfig(c) ==
    /\ c = [key \in Keys |-> c[key]]
    /\ \A key \in Keys : Allowed(key, c[key])
    /\ settings_usable(c)

\* Addresses in a file are addresses of Switches.
KnownAddresses(content) ==
    \A key \in DOMAIN content :
        content[key][1] = "address" => content[key][2] \in Addresses

\* The names of the settings are different strings.
LEMMA KeysAreDistinct ==
    /\ Period \notin {Host, Port, Backlog, Heartbeat, Profile, Explicit, Learned}
    /\ Host \notin {Port, Backlog, Heartbeat, Profile, Explicit, Learned}
    /\ Port \notin {Backlog, Heartbeat, Profile, Explicit, Learned}
    /\ Backlog \notin {Heartbeat, Profile, Explicit, Learned}
    /\ Heartbeat \notin {Profile, Explicit, Learned}
    /\ Profile \notin {Explicit, Learned} /\ Explicit # Learned
    /\ \A key \in Keys : key \in {Period, Host, Port, Backlog, Heartbeat, Profile,
                                  Explicit, Learned}
BY DEF Period, Host, Port, Backlog, Heartbeat, Profile, Explicit, Learned, Keys

\* The defaults are a configuration.
LEMMA DefaultIsConfig ==
    /\ IsConfig(config_default)
    /\ config_default[Profile] = "swbt-pro"
    /\ config_default[Explicit] = NoAddress /\ config_default[Learned] = NoAddress
<1>1. /\ config_default[Period] = 8 /\ config_default[Port] = 0
      /\ config_default[Backlog] = 1 /\ config_default[Heartbeat] = 0
      /\ config_default[Profile] = "swbt-pro"
      /\ config_default[Explicit] = NoAddress /\ config_default[Learned] = NoAddress
  BY DEF config_default, Period, Host, Port, Backlog, Heartbeat, Profile,
         Explicit, Learned, Keys
<1>2. config_default = [key \in Keys |-> config_default[key]]
  BY DEF config_default
<1>3. settings_usable(config_default)
  BY <1>1 DEF settings_usable
<1>4. ASSUME NEW key \in Keys PROVE Allowed(key, config_default[key])
  BY <1>1, WidthAssumption DEF Allowed
<1> QED BY <1>1, <1>2, <1>3, <1>4 DEF IsConfig

\* A value of the file is refused or becomes one allowed value.
LEMMA TomlValueFacts ==
    ASSUME NEW c, IsConfig(c), NEW key \in Keys, NEW value,
           value[1] = "address" => value[2] \in Addresses,
           toml_value(c, key, value) # {}
    PROVE  \E v : toml_value(c, key, value) = {v} /\ Allowed(key, v)
<1>1. CASE key \in {Explicit, Learned}
  <2>1. toml_value(c, key, value) = switch_address_normalize(value)
    BY <1>1, KeysAreDistinct DEF toml_value
  <2>2. value[1] = "address"
    BY <2>1 DEF switch_address_normalize
  <2>3. toml_value(c, key, value) = {<<"address", value[2], "upper">>}
    BY <2>1, <2>2 DEF switch_address_normalize
  <2>4. <<"address", value[2], "upper">> \in AddressTexts
    BY <2>2 DEF AddressTexts, switch_address_format_bytes
  <2> QED BY <1>1, <2>3, <2>4, KeysAreDistinct DEF Allowed
<1>2. CASE key = Host
  BY <1>2, KeysAreDistinct DEF toml_value, set_ipc_host, Allowed
<1>3. CASE key = Profile
  <2>1. c[Profile] = "swbt-pro"
    BY <1>3 DEF IsConfig, Allowed
  <2> QED BY <1>3, <2>1, KeysAreDistinct DEF toml_value, apply_device_info_profile, Allowed
<1>4. CASE key \in {Period, Port, Backlog, Heartbeat}
  <2>1. toml_value(c, key, value) = {value[2]} /\ value[2] \in 0..LimitOf(key)
    BY <1>4, KeysAreDistinct DEF toml_value
  <2>2. Allowed(key, value[2])
    BY <1>4, <2>1, KeysAreDistinct DEF Allowed, LimitOf
  <2> QED BY <2>1, <2>2
<1> QED BY <1>1, <1>2, <1>3, <1>4, KeysAreDistinct

\* A variable of the environment is refused or becomes one allowed value.
LEMMA EnvValueFacts ==
    ASSUME NEW c, IsConfig(c), NEW env, NEW key \in EnvKeys,
           env_value(c, env, key) # {}
    PROVE  \E v : env_value(c, env, key) = {v} /\ Allowed(key, v)
<1>1. CASE key = Host
  BY <1>1, KeysAreDistinct DEF env_value, set_ipc_host, Allowed
<1>2. CASE key = Profile
  <2>1. c[Profile] = "swbt-pro"
    BY <1>2 DEF IsConfig, Allowed, EnvKeys
  <2> QED BY <1>2, <2>1, KeysAreDistinct DEF env_value, apply_device_info_profile, Allowed
<1>3. CASE key \in {Period, Port, Backlog, Heartbeat}
  <2>1. env_value(c, env, key) = parse_number(LimitOf(key), env[key])
    BY <1>3, KeysAreDistinct DEF env_value
  <2>2. PICK v \in 0..LimitOf(key) : env_value(c, env, key) = {v}
    BY <2>1 DEF parse_number
  <2>3. Allowed(key, v)
    BY <1>3, <2>2, KeysAreDistinct DEF Allowed, LimitOf
  <2> QED BY <2>2, <2>3
<1> QED BY <1>1, <1>2, <1>3, KeysAreDistinct DEF EnvKeys

\* The only element of a set.
LEMMA OnlyChoice == ASSUME NEW v PROVE (CHOOSE x \in {v} : TRUE) = v
OBVIOUS

\* A file is taken as a whole or not at all.
LEMMA TomlApplied ==
    ASSUME NEW c, IsConfig(c), NEW content, KnownAddresses(content),
           NEW result, result = config_apply_toml(c, content)
    PROVE  /\ IsConfig(result.config)
           /\ result.result = "OK" =>
                /\ DOMAIN content \subseteq Keys
                /\ \A key \in Keys :
                     IF key \in DOMAIN content
                     THEN {result.config[key]} = toml_value(c, key, content[key])
                     ELSE result.config[key] = c[key]
<1>1. PICK next : next = [key \in Keys |->
                            IF key \in DOMAIN content
                            THEN CHOOSE x \in toml_value(c, key, content[key]) : TRUE
                            ELSE c[key]]
  OBVIOUS
<1>2. CASE /\ DOMAIN content \subseteq Keys
           /\ \A key \in DOMAIN content : toml_value(c, key, content[key]) # {}
           /\ settings_usable(next)
  <2>1. result = [result |-> "OK", config |-> next]
    BY <1>1, <1>2 DEF config_apply_toml, Overridden
  <2>2. ASSUME NEW key \in Keys
        PROVE  /\ Allowed(key, next[key])
               /\ IF key \in DOMAIN content
                  THEN {next[key]} = toml_value(c, key, content[key])
                  ELSE next[key] = c[key]
    <3>1. CASE key \in DOMAIN content
      <4>1. PICK v : toml_value(c, key, content[key]) = {v} /\ Allowed(key, v)
        BY <1>2, <3>1, TomlValueFacts DEF KnownAddresses
      <4>2. next[key] = v
        BY <1>1, <3>1, <4>1, OnlyChoice
      <4> QED BY <3>1, <4>1, <4>2
    <3>2. CASE key \notin DOMAIN content
      BY <1>1, <3>2 DEF IsConfig
    <3> QED BY <3>1, <3>2
  <2>3. IsConfig(next)
    BY <1>1, <1>2, <2>2 DEF IsConfig
  <2> QED BY <1>2, <2>1, <2>2, <2>3
<1>3. CASE ~(/\ DOMAIN content \subseteq Keys
             /\ \A key \in DOMAIN content : toml_value(c, key, content[key]) # {}
             /\ settings_usable(next))
  <2>1. result = [result |-> "INVALID_VALUE", config |-> c]
    BY <1>1, <1>3 DEF config_apply_toml, Overridden
  <2> QED BY <2>1
<1> QED BY <1>2, <1>3

\* So is the environment.
LEMMA EnvApplied ==
    ASSUME NEW c, IsConfig(c), NEW env \in Envs,
           NEW result, result = config_apply_env(c, env)
    PROVE  /\ IsConfig(result.config)
           /\ result.result = "OK" =>
                /\ \A key \in env_keys_set(env) : env_value(c, env, key) # {}
                /\ \A key \in Keys :
                     IF key \in env_keys_set(env)
                     THEN {result.config[key]} = env_value(c, env, key)
                     ELSE result.config[key] = c[key]
<1>1. PICK next : next = [key \in Keys |->
                            IF key \in env_keys_set(env)
                            THEN CHOOSE x \in env_value(c, env, key) : TRUE
                            ELSE c[key]]
  OBVIOUS
<1>2. env_keys_set(env) \subseteq EnvKeys
  BY InputAssumption DEF env_keys_set
<1>3. CASE /\ \A key \in env_keys_set(env) : env_value(c, env, key) # {}
           /\ settings_usable(next)
  <2>1. result = [result |-> "OK", config |-> next]
    BY <1>1, <1>3 DEF config_apply_env, Overridden
  <2>2. ASSUME NEW key \in Keys
        PROVE  /\ Allowed(key, next[key])
               /\ IF key \in env_keys_set(env)
                  THEN {next[key]} = env_value(c, env, key)
                  ELSE next[key] = c[key]
    <3>1. CASE key \in env_keys_set(env)
      <4>1. PICK v : env_value(c, env, key) = {v} /\ Allowed(key, v)
        BY <1>2, <1>3, <3>1, EnvValueFacts
      <4>2. next[key] = v
        BY <1>1, <3>1, <4>1, OnlyChoice
      <4> QED BY <3>1, <4>1, <4>2
    <3>2. CASE key \notin env_keys_set(env)
      BY <1>1, <3>2 DEF IsConfig
    <3> QED BY <3>1, <3>2
  <2>3. IsConfig(next)
    BY <1>1, <1>3, <2>2 DEF IsConfig
  <2> QED BY <1>3, <2>1, <2>2, <2>3
<1>4. CASE ~(/\ \A key \in env_keys_set(env) : env_value(c, env, key) # {}
             /\ settings_usable(next))
  <2>1. result = [result |-> "INVALID_VALUE", config |-> c]
    BY <1>1, <1>4 DEF config_apply_env, Overridden
  <2> QED BY <2>1
<1> QED BY <1>3, <1>4

-----------------------------------------------------------------------------
(* Files and launches. *)

IsFile(f) ==
    /\ f \in {Absent, Unreadable} \/ f = Toml(f.content)
    /\ KnownAddresses(f.content)

\* What the user leaves is a file.
LEMMA FilesAreFiles == \A f \in Files : IsFile(f)
<1> SUFFICES ASSUME NEW f \in Files PROVE IsFile(f)
  OBVIOUS
<1>1. KnownAddresses(Empty)
  BY DEF KnownAddresses, Empty
<1>2. CASE f \in {Absent, Unreadable}
  BY <1>1, <1>2 DEF IsFile, Absent, Unreadable
<1>3. ASSUME NEW content \in Contents, f = Toml(content) PROVE IsFile(f)
  <2>1. f.content = content
    BY <1>3 DEF Toml
  <2>2. KnownAddresses(content)
    BY InputAssumption DEF KnownAddresses
  <2> QED BY <1>3, <2>1, <2>2 DEF IsFile
<1> QED BY <1>2, <1>3 DEF Files

FollowsPrecedence(c, env, f) ==
    /\ IsConfig(c)
    /\ \A key \in Keys \ {Learned} : {c[key]} = Precedence(env, f, key)
    /\ c[Learned] = LearnedIn(f)

\* A launch that goes ahead: every setting follows the precedence of
\* environment, file and default, and the learned address is the file's.
LEMMA LaunchFacts ==
    ASSUME NEW options, NEW env \in Envs, NEW f, IsFile(f),
           NEW p, p = launch_config_prepare(options, env, f), p.result = "OK",
           NEW read, read = IF p.target THEN f ELSE Absent
    PROVE  FollowsPrecedence(p.config, env, read)
<1>1. PICK from_file : from_file = IF options["--config"] # ""
                                   THEN config_apply_file(config_default, f)
                                   ELSE [result |-> "OK", config |-> config_default]
  OBVIOUS
<1>2. PICK from_env : from_env = config_apply_env(from_file.config, env)
  OBVIOUS
<1>3. /\ from_file.result = "OK" /\ from_env.result = "OK"
      /\ p.config = from_env.config /\ p.target = (options["--config"] # "")
  BY <1>1, <1>2 DEF launch_config_prepare
<1>4. /\ IsConfig(from_file.config)
      /\ \A key \in Keys : IF key \in DOMAIN read.content
                           THEN {from_file.config[key]}
                                  = toml_value(config_default, key, read.content[key])
                           ELSE from_file.config[key] = config_default[key]
  <2>1. CASE options["--config"] # ""
    <3>1. read = f /\ from_file = config_apply_file(config_default, f)
      BY <1>1, <1>3, <2>1
    <3>2. f # Absent /\ f # Unreadable
      BY <1>3, <3>1 DEF config_apply_file, Absent, Unreadable
    <3>3. from_file = config_apply_toml(config_default, f.content)
      BY <3>1, <3>2 DEF config_apply_file
    <3>4. KnownAddresses(read.content) /\ from_file = config_apply_toml(config_default, read.content)
      BY <3>1, <3>3 DEF IsFile
    <3>5. PICK content : content = read.content
      OBVIOUS
    <3>6. IsConfig(from_file.config)
      BY <3>4, TomlApplied, DefaultIsConfig
    <3>7. \A key \in Keys :
             IF key \in DOMAIN content
             THEN {from_file.config[key]} = toml_value(config_default, key, content[key])
             ELSE from_file.config[key] = config_default[key]
      <4>1. PICK c : c = config_default
        OBVIOUS
      <4>2. /\ IsConfig(c) /\ KnownAddresses(content) /\ from_file.result = "OK"
            /\ from_file = config_apply_toml(c, content)
        BY <1>3, <3>4, <3>5, <4>1, DefaultIsConfig
      <4>3. \A key \in Keys :
             IF key \in DOMAIN content
             THEN {from_file.config[key]} = toml_value(c, key, content[key])
             ELSE from_file.config[key] = c[key]
        BY <4>2, TomlApplied
      <4> QED BY <4>1, <4>3
    <3> QED BY <3>5, <3>6, <3>7
  <2>2. CASE options["--config"] = ""
    <3>1. read = Absent /\ from_file.config = config_default
      BY <1>1, <1>3, <2>2
    <3>2. DOMAIN read.content = {}
      BY <3>1 DEF Absent, Empty
    <3> QED BY <3>1, <3>2, DefaultIsConfig
  <2> QED BY <2>1, <2>2
<1>5. /\ IsConfig(p.config)
      /\ \A key \in env_keys_set(env) : env_value(from_file.config, env, key) # {}
      /\ \A key \in Keys : IF key \in env_keys_set(env)
                           THEN {p.config[key]} = env_value(from_file.config, env, key)
                           ELSE p.config[key] = from_file.config[key]
  <2>1. PICK c : c = from_file.config
    OBVIOUS
  <2>2. IsConfig(c) /\ from_env = config_apply_env(c, env) /\ from_env.result = "OK"
    BY <1>2, <1>3, <1>4, <2>1
  <2>3. IsConfig(from_env.config)
    BY <2>2, EnvApplied
  <2>4. \A key \in env_keys_set(env) : env_value(c, env, key) # {}
    BY <2>2, EnvApplied
  <2>5. \A key \in Keys : IF key \in env_keys_set(env)
                         THEN {from_env.config[key]} = env_value(c, env, key)
                         ELSE from_env.config[key] = c[key]
    BY <2>2, EnvApplied
  <2> QED BY <1>3, <2>1, <2>3, <2>4, <2>5
<1>6. ASSUME NEW key \in Keys \ {Learned}
      PROVE  {p.config[key]} = Precedence(env, read, key)
  <2>1. CASE key \notin env_keys_set(env)
    BY <1>4, <1>5, <2>1 DEF Precedence
  <2>2. CASE key \in env_keys_set(env) /\ env[key] # <<"text", "">>
    <3>1. Precedence(env, read, key) = env_value(config_default, env, key)
      BY <2>2 DEF Precedence
    <3>2. from_file.config[Profile] = config_default[Profile]
      BY <1>4, DefaultIsConfig, KeysAreDistinct DEF IsConfig, Allowed, Keys
    <3>3. env_value(from_file.config, env, key) = env_value(config_default, env, key)
      BY <3>2 DEF env_value, apply_device_info_profile
    <3> QED BY <1>5, <2>2, <3>1, <3>3
  <2>3. CASE key \in env_keys_set(env) /\ env[key] = <<"text", "">>
    <3>1. key = Profile
      <4>1. env_value(from_file.config, env, key) # {}
        BY <1>5, <2>3
      <4>2. key # Host
        BY <2>3 DEF env_keys_set
      <4>3. parse_number(LimitOf(key), env[key]) = {}
        <5>1. PICK text : text = env[key]
          OBVIOUS
        <5>2. text = <<"text", "">>
          BY <2>3, <5>1
        <5>3. text[1] # "number"
          BY <5>2
        <5> QED BY <5>1, <5>3 DEF parse_number
      <4> QED BY <4>1, <4>2, <4>3 DEF env_value
    <3>2. Precedence(env, read, key) = {config_default[key]}
      BY <2>3 DEF Precedence
    <3>3. p.config[Profile] = "swbt-pro"
      BY <1>5, <3>1 DEF IsConfig, Allowed
    <3> QED BY <3>1, <3>2, <3>3, DefaultIsConfig
  <2> QED BY <2>1, <2>2, <2>3
<1>7. p.config[Learned] = LearnedIn(read)
  <2>1. Learned \in Keys /\ Learned \notin env_keys_set(env)
    BY InputAssumption DEF env_keys_set, EnvKeys, Keys
  <2>2. p.config[Learned] = from_file.config[Learned]
    BY <1>5, <2>1
  <2>3. CASE Learned \in DOMAIN read.content
    <3>1. {p.config[Learned]} = toml_value(config_default, Learned, read.content[Learned])
      BY <1>4, <2>1, <2>2, <2>3
    <3>2. toml_value(config_default, Learned, read.content[Learned])
            = switch_address_normalize(read.content[Learned])
      BY KeysAreDistinct DEF toml_value
    <3> QED BY <2>3, <3>1, <3>2 DEF switch_address_normalize, LearnedIn, switch_address_format_bytes
  <2>4. CASE Learned \notin DOMAIN read.content
    BY <1>4, <2>1, <2>2, <2>4, DefaultIsConfig DEF LearnedIn
  <2> QED BY <2>3, <2>4
<1> QED BY <1>5, <1>6, <1>7 DEF FollowsPrecedence

-----------------------------------------------------------------------------
(* Saves. *)

\* The learned address of a file is none or an address in normal form.
LEMMA LearnedInType ==
    ASSUME NEW f, IsFile(f)
    PROVE  LearnedIn(f) \in {NoAddress} \union AddressTexts
BY DEF LearnedIn, IsFile, KnownAddresses, AddressTexts, switch_address_format_bytes

\* The rewritten file holds the new learned address and all else as before.
LEMMA OutputFacts ==
    ASSUME NEW content, KnownAddresses(content), NEW a \in Addresses,
           NEW output,
           output = output_with_learned(content, switch_address_format_bytes(a))
    PROVE  /\ KnownAddresses(output)
           /\ Learned \in DOMAIN output
           /\ output[Learned] = switch_address_format_bytes(a)
           /\ Restrict(output, DOMAIN output \ {Learned})
                = Restrict(content, DOMAIN content \ {Learned})
<1>1. /\ DOMAIN output = DOMAIN content \union {Learned}
      /\ output[Learned] = switch_address_format_bytes(a)
      /\ \A key \in DOMAIN content \ {Learned} : output[key] = content[key]
  BY DEF output_with_learned
<1>2. switch_address_format_bytes(a)[1] = "address"
      /\ switch_address_format_bytes(a)[2] = a
  BY DEF switch_address_format_bytes
<1>3. KnownAddresses(output)
  BY <1>1, <1>2 DEF KnownAddresses
<1>4. DOMAIN output \ {Learned} = DOMAIN content \ {Learned}
  BY <1>1
<1>5. Restrict(output, DOMAIN output \ {Learned})
        = Restrict(content, DOMAIN content \ {Learned})
  BY <1>1, <1>4 DEF Restrict
<1> QED BY <1>1, <1>3, <1>5

\* What a torn rewrite leaves is still a file.
LEMMA TornFacts ==
    ASSUME NEW output, KnownAddresses(output), NEW f \in TornFiles(output)
    PROVE  IsFile(f)
<1>1. CASE f = Unreadable
  BY <1>1 DEF IsFile, Unreadable, KnownAddresses, Empty
<1>2. ASSUME NEW S \in SUBSET DOMAIN output, f = Toml(Restrict(output, S))
      PROVE  IsFile(f)
  <2>1. f.content = Restrict(output, S)
    BY <1>2 DEF Toml
  <2>2. KnownAddresses(Restrict(output, S))
    BY <1>2 DEF KnownAddresses, Restrict
  <2> QED BY <1>2, <2>1, <2>2 DEF IsFile
<1> QED BY <1>1, <1>2 DEF TornFiles

\* So is what a rewrite leaves that an edit crossed.
LEMMA CrossedFacts ==
    ASSUME NEW output, KnownAddresses(output), NEW g, IsFile(g),
           NEW f \in CrossedFiles(output, g)
    PROVE  IsFile(f)
<1>1. CASE f = Unreadable
  BY <1>1 DEF IsFile, Unreadable, KnownAddresses, Empty
<1>2. CASE f = g
  BY <1>2
<1>3. ASSUME NEW S \in SUBSET DOMAIN g.content, NEW mixed,
             mixed = [key \in DOMAIN output \union S |->
                        IF key \in DOMAIN output THEN output[key] ELSE g.content[key]],
             f = Toml(mixed)
      PROVE  IsFile(f)
  <2>1. f.content = mixed
    BY <1>3 DEF Toml
  <2>2. KnownAddresses(mixed)
    BY <1>3 DEF KnownAddresses, IsFile
  <2> QED BY <1>3, <2>1, <2>2 DEF IsFile
<1> QED BY <1>1, <1>2, <1>3 DEF CrossedFiles

\* The next configuration differs in the learned address only.
LEMMA LearnedReplaced ==
    ASSUME NEW c, IsConfig(c), NEW a \in Addresses,
           NEW next, next = [c EXCEPT ![Learned] = switch_address_format_bytes(a)]
    PROVE  /\ IsConfig(next)
           /\ next[Learned] = switch_address_format_bytes(a)
           /\ \A key \in Keys \ {Learned} : next[key] = c[key]
<1>1. Learned \in Keys /\ Period \in Keys \ {Learned} /\ Backlog \in Keys \ {Learned}
  BY KeysAreDistinct DEF Keys
<1>2. /\ next[Learned] = switch_address_format_bytes(a)
      /\ \A key \in Keys \ {Learned} : next[key] = c[key]
      /\ next = [key \in Keys |-> next[key]]
  BY <1>1 DEF IsConfig
<1>3. switch_address_format_bytes(a) \in AddressTexts
  BY DEF AddressTexts
<1>4. Allowed(Learned, next[Learned])
  BY <1>2, <1>3, KeysAreDistinct DEF Allowed
<1>5. \A key \in Keys : Allowed(key, next[key])
  BY <1>2, <1>4 DEF IsConfig
<1>6. settings_usable(next)
  BY <1>1, <1>2 DEF IsConfig, settings_usable
<1> QED BY <1>2, <1>5, <1>6 DEF IsConfig

-----------------------------------------------------------------------------
(* The inductive invariant. The properties speak of states in which no     *)
(* save has the file open; what they need to know of a save is that its    *)
(* output holds the user's part of the file and the new address unless an  *)
(* edit came in between, and that the running process, which cannot change *)
(* meanwhile, will take over that address and nothing else.                *)

FileInv ==
    /\ IsFile(file) /\ IsFile(disk) /\ edited \in Files
    /\ learned \in {NoAddress} \union AddressTexts
    /\ ~Opened /\ ~torn /\ ~overlap => LearnedIn(file) = learned
    /\ EditsSurviveSaves

ProcInv ==
    /\ proc = [running |-> proc.running, backend |-> proc.backend,
               target |-> proc.target, config |-> proc.config,
               powered |-> proc.powered, requested |-> proc.requested]
    /\ IsConfig(proc.config)
    /\ proc.requested \in {"none"} \union Addresses
    /\ proc.powered => proc.running
    /\ LaunchSettingsStay
    /\ proc.running /\ ~proc.powered /\ launch.clean /\ proc.target =>
          proc.config[Learned] = launch.learned

IsSave(s) ==
    /\ proc.powered
    /\ IsConfig(s.next)
    /\ \A key \in Keys \ {Learned} : s.next[key] = proc.config[key]
    /\ KnownAddresses(s.output)
    /\ Learned \in DOMAIN s.output
    /\ s.output[Learned] = s.next[Learned] /\ s.next[Learned] \in AddressTexts
    /\ s.phase = "crossed" => overlap
    /\ ~torn /\ ~overlap =>
          /\ Restrict(s.output, DOMAIN s.output \ {Learned}) = UserPart(edited)
          /\ edited.kind # "unreadable"

SaveInv == saving = <<>> \/ (Len(saving) = 1 /\ IsSave(saving[1]))

CountInv ==
    /\ edits \in 0..MaxEdits /\ exited \in {"none", "ok", "error"}
    /\ torn \in BOOLEAN /\ overlap \in BOOLEAN

IInv == FileInv /\ ProcInv /\ SaveInv /\ CountInv

\* The bound on the edits is a number.
LEMMA BoundIsNat == MaxEdits \in Nat
<1>1. MaxEdits \in {U16Max, IntMax, U32Max, ULongMax, MaxEdits}
  OBVIOUS
<1> QED BY <1>1, WidthAssumption

\* The invariant holds initially.
LEMMA InitInv == Init => IInv
<1> SUFFICES ASSUME Init PROVE IInv
  OBVIOUS
<1>1. FileInv
  BY FilesAreFiles, LearnedInType DEF Init, FileInv, EditsSurviveSaves
<1>2. ProcInv
  BY DefaultIsConfig DEF Init, ProcInv, NotRunning, LaunchSettingsStay
<1>3. SaveInv
  BY DEF Init, SaveInv
<1>4. CountInv
  <2>1. edits = 0 /\ exited = "none" /\ torn = FALSE /\ overlap = FALSE
    BY DEF Init
  <2>2. 0 \in 0..MaxEdits
    BY BoundIsNat
  <2> QED BY <2>1, <2>2 DEF CountInv
<1> QED BY <1>1, <1>2, <1>3, <1>4 DEF IInv

\* An edit replaces file and record of it together; it leaves a save in
\* progress with an output that is not the user's any more.
LEMMA UserEditsInv == ASSUME IInv, NEW f \in Files, user_edits(f) PROVE IInv'
<1>1. /\ file' = f /\ disk' = f /\ edited' = f /\ learned' = LearnedIn(f)
      /\ torn' = FALSE /\ overlap' = (saving # <<>>)
      /\ saving' = IF Opened THEN <<Crossed(saving[1])>> ELSE saving
      /\ UNCHANGED <<proc, exited, launch>>
  BY DEF user_edits
<1>2. FileInv'
  <2>1. IsFile(f) /\ LearnedIn(f) \in {NoAddress} \union AddressTexts
    BY FilesAreFiles, LearnedInType
  <2> QED BY <1>1, <2>1 DEF FileInv, EditsSurviveSaves
<1>3. ProcInv'
  BY <1>1 DEF IInv, ProcInv, LaunchSettingsStay
<1>4. SaveInv'
  <2>1. CASE saving = <<>>
    BY <1>1, <2>1 DEF SaveInv, Opened
  <2>2. CASE saving # <<>>
    <3>1. PICK s, t : /\ s = saving[1] /\ IsSave(s) /\ Len(saving) = 1
                      /\ t = IF Opened THEN Crossed(s) ELSE s
      BY <2>2 DEF IInv, SaveInv
    <3>2. overlap' = TRUE
      BY <1>1, <2>2
    <3>3. t.next = s.next /\ t.output = s.output
      BY <3>1 DEF Crossed
    <3>4. IsSave(t)'
      BY <1>1, <3>1, <3>2, <3>3 DEF IsSave
    <3>5. Len(saving') = 1 /\ saving'[1] = t
      BY <1>1, <3>1
    <3> QED BY <3>4, <3>5 DEF SaveInv, IsSave
  <2> QED BY <2>1, <2>2
<1>5. CountInv'
  <2>1. edits \in 0..MaxEdits /\ edits < MaxEdits /\ edits' = edits + 1
    BY DEF IInv, CountInv, user_edits
  <2>2. edits' \in 0..MaxEdits
    BY <2>1, BoundIsNat
  <2>3. torn' \in BOOLEAN /\ overlap' \in BOOLEAN
    BY <1>1
  <2> QED BY <1>1, <2>2, <2>3 DEF IInv, CountInv
<1> QED BY <1>2, <1>3, <1>4, <1>5 DEF IInv

\* The commands that only print change no state but the exit code.
LEMMA CliInv ==
    ASSUME IInv, NEW argv \in Argvs, NEW env \in Envs, cli_dispatch(argv, env) PROVE IInv'
<1>1. UNCHANGED <<file, disk, proc, saving, edits, edited, learned, torn, overlap, launch>>
      /\ exited' \in {"none", "ok", "error"}
  BY DEF cli_dispatch
<1> QED BY <1>1 DEF IInv, FileInv, EditsSurviveSaves, Opened, ProcInv, LaunchSettingsStay,
                    SaveInv, IsSave, CountInv

\* A launch starts from what LaunchFacts says.
LEMMA MainInv ==
    ASSUME IInv, NEW argv \in Argvs, NEW env \in Envs, main(argv, env) PROVE IInv'
<1>1. saving = <<>> /\ ~proc.running
  BY DEF IInv, SaveInv, IsSave, ProcInv, main
<1>2. UNCHANGED <<file, disk, saving, edits, edited, learned, torn, overlap>>
  BY DEF main
<1>3. FileInv' /\ SaveInv' /\ CountInv'
  BY <1>1, <1>2 DEF IInv, FileInv, EditsSurviveSaves, Opened, SaveInv, CountInv, main
<1>4. ProcInv'
  <2>1. PICK options : options = launch_options_parse(argv).options
    OBVIOUS
  <2>2. PICK p : p = launch_config_prepare(options, env, file)
    OBVIOUS
  <2>3. CASE launch_options_parse(argv).result = "OK" /\ p.result = "OK"
    <3>1. /\ proc' = [NotRunning EXCEPT !.running = TRUE,
                         !.backend = options["--backend"],
                         !.target = p.target, !.config = p.config]
          /\ launch' = [env |-> env, clean |-> ~torn /\ ~overlap, learned |-> learned,
                        file |-> IF p.target THEN file ELSE Absent]
      BY <2>1, <2>2, <2>3 DEF main
    <3>2. proc' = [running |-> TRUE, backend |-> options["--backend"],
                   target |-> p.target, config |-> p.config,
                   powered |-> FALSE, requested |-> "none"]
      BY <3>1 DEF NotRunning
    <3>3. PICK read : read = IF p.target THEN file ELSE Absent
      OBVIOUS
    <3>4. /\ IsConfig(p.config)
          /\ \A key \in Keys \ {Learned} : {p.config[key]} = Precedence(env, read, key)
          /\ p.config[Learned] = LearnedIn(read)
      <4>1. PICK f : f = file
        OBVIOUS
      <4>2. /\ IsFile(f) /\ p = launch_config_prepare(options, env, f)
            /\ p.result = "OK" /\ read = IF p.target THEN f ELSE Absent
        BY <2>2, <2>3, <3>3, <4>1 DEF IInv, FileInv
      <4>3. FollowsPrecedence(p.config, env, read)
        BY <4>2, LaunchFacts
      <4> QED BY <4>3 DEF FollowsPrecedence
    <3>5. launch'.env = env /\ launch'.file = read /\ launch'.learned = learned
          /\ launch'.clean = (~torn /\ ~overlap)
      BY <3>1, <3>3
    <3>6. LaunchSettingsStay'
      BY <3>2, <3>4, <3>5 DEF LaunchSettingsStay
    <3>7. launch'.clean /\ proc'.target => proc'.config[Learned] = launch'.learned
      BY <1>1, <3>2, <3>3, <3>4, <3>5 DEF IInv, FileInv, Opened
    <3> QED BY <3>2, <3>4, <3>6, <3>7 DEF ProcInv
  <2>4. CASE ~(launch_options_parse(argv).result = "OK" /\ p.result = "OK")
    <3>1. UNCHANGED <<proc, launch>>
      BY <2>1, <2>2, <2>4 DEF main
    <3> QED BY <3>1 DEF IInv, ProcInv, LaunchSettingsStay
  <2> QED BY <2>3, <2>4
<1> QED BY <1>3, <1>4 DEF IInv

\* The reconnect asks for the address of a Switch or for none.
LEMMA RequestInv == ASSUME IInv, request_active PROVE IInv'
<1>1. PICK address : address = effective_reconnect_switch_address(proc.config)
  OBVIOUS
<1>2. address \in {NoAddress} \union AddressTexts
  <2>1. Allowed(Explicit, proc.config[Explicit]) /\ Allowed(Learned, proc.config[Learned])
    BY DEF IInv, ProcInv, IsConfig, Keys
  <2> QED BY <1>1, <2>1 DEF Allowed, effective_reconnect_switch_address
<1>3. PICK requested : requested = IF address = NoAddress THEN "none" ELSE address[2]
  OBVIOUS
<1>4. requested \in {"none"} \union Addresses
  BY <1>2, <1>3 DEF AddressTexts, switch_address_format_bytes
<1>5. /\ proc' = [proc EXCEPT !.powered = TRUE, !.requested = requested]
      /\ proc.running
      /\ UNCHANGED <<file, disk, saving, exited, edits, edited, learned, torn, overlap,
                     launch>>
  BY <1>1, <1>3 DEF request_active, switch_address_parse_bytes
<1>6. proc' = [running |-> TRUE, backend |-> proc.backend,
               target |-> proc.target, config |-> proc.config,
               powered |-> TRUE, requested |-> requested]
  BY <1>5 DEF IInv, ProcInv
<1>7. ProcInv'
  BY <1>4, <1>5, <1>6 DEF IInv, ProcInv, LaunchSettingsStay
<1>8. FileInv' /\ CountInv'
  BY <1>5 DEF IInv, FileInv, EditsSurviveSaves, Opened, CountInv
<1>9. SaveInv'
  BY <1>5, <1>6 DEF IInv, SaveInv, IsSave
<1> QED BY <1>7, <1>8, <1>9 DEF IInv

\* A save starts from a file that can be read and carries over the user's part.
LEMMA SaveReadsInv == ASSUME IInv, NEW a \in Addresses, save_reads(a) PROVE IInv'
<1>1. PICK s : s = [phase  |-> "read",
                    next   |-> next_config(a),
                    output |-> output_with_learned(toml_load_or_empty(file).content,
                                                   switch_address_format_bytes(a))]
  OBVIOUS
<1>2. /\ saving' = <<s>> /\ saving = <<>> /\ proc.powered
      /\ toml_load_or_empty(file).result = "OK"
      /\ UNCHANGED <<file, disk, proc, exited, edits, edited, learned, torn, overlap, launch>>
  BY <1>1 DEF save_reads, StartSave
<1>3. file # Unreadable /\ toml_load_or_empty(file).content = file.content
  BY <1>2 DEF toml_load_or_empty
<1>4. PICK content, output, next :
         /\ content = file.content
         /\ output = output_with_learned(content, switch_address_format_bytes(a))
         /\ next = [proc.config EXCEPT ![Learned] = switch_address_format_bytes(a)]
         /\ s.output = output /\ s.next = next /\ s.phase = "read"
  BY <1>1, <1>3 DEF next_config
<1>5. KnownAddresses(content) /\ IsConfig(proc.config)
  BY <1>4 DEF IInv, FileInv, IsFile, ProcInv
<1>6. /\ KnownAddresses(output) /\ Learned \in DOMAIN output
      /\ output[Learned] = switch_address_format_bytes(a)
      /\ Restrict(output, DOMAIN output \ {Learned})
           = Restrict(content, DOMAIN content \ {Learned})
  BY <1>4, <1>5, OutputFacts
<1>7. /\ IsConfig(next) /\ next[Learned] = switch_address_format_bytes(a)
      /\ \A key \in Keys \ {Learned} : next[key] = proc.config[key]
  <2>1. PICK c : c = proc.config
    OBVIOUS
  <2>2. IsConfig(c) /\ next = [c EXCEPT ![Learned] = switch_address_format_bytes(a)]
    BY <1>4, <1>5, <2>1
  <2>3. IsConfig(next)
    BY <2>2, LearnedReplaced
  <2>4. next[Learned] = switch_address_format_bytes(a)
    BY <2>2, LearnedReplaced
  <2>5. \A key \in Keys \ {Learned} : next[key] = c[key]
    BY <2>2, LearnedReplaced
  <2> QED BY <2>1, <2>3, <2>4, <2>5
<1>8. switch_address_format_bytes(a) \in AddressTexts
  BY DEF AddressTexts
<1>9. ~torn /\ ~overlap =>
         /\ Restrict(output, DOMAIN output \ {Learned}) = UserPart(edited)
         /\ edited.kind # "unreadable"
  <2>1. file.kind # "unreadable"
    BY <1>3 DEF IInv, FileInv, IsFile, Absent, Unreadable, Toml
  <2> QED BY <1>2, <1>4, <1>6, <2>1 DEF IInv, FileInv, EditsSurviveSaves, Opened, UserPart
<1>10. IsSave(s)'
  BY <1>2, <1>4, <1>6, <1>7, <1>8, <1>9 DEF IsSave
<1>11. SaveInv'
  BY <1>2, <1>10 DEF SaveInv, IsSave
<1>12. ~Opened /\ ~Opened'
  BY <1>1, <1>2 DEF Opened
<1>13. FileInv'
  BY <1>2, <1>12 DEF IInv, FileInv, EditsSurviveSaves
<1>14. ProcInv' /\ CountInv'
  BY <1>2 DEF IInv, ProcInv, LaunchSettingsStay, CountInv
<1> QED BY <1>11, <1>13, <1>14 DEF IInv

\* The truncation changes the file only, which is open now.
LEMMA SaveOpensInv == ASSUME IInv, save_opens PROVE IInv'
<1>1. PICK s, t : /\ s = saving[1]
                  /\ t = [phase |-> "open", next |-> s.next, output |-> s.output]
  OBVIOUS
<1>2. /\ saving' = <<t>> /\ file' = Toml(Empty) /\ saving # <<>>
      /\ UNCHANGED <<disk, proc, exited, edits, edited, learned, torn, overlap, launch>>
  BY <1>1 DEF save_opens
<1>3. IsSave(s)
  BY <1>1, <1>2 DEF IInv, SaveInv
<1>4. IsSave(t)'
  BY <1>1, <1>2, <1>3 DEF IsSave
<1>5. Len(saving') = 1 /\ saving'[1] = t
  BY <1>2
<1>6. SaveInv'
  BY <1>4, <1>5 DEF SaveInv, IsSave
<1>7. IsFile(Toml(Empty))
  BY DEF IsFile, Toml, KnownAddresses, Empty
<1>8. Opened'
  BY <1>1, <1>2 DEF Opened
<1>9. FileInv'
  BY <1>2, <1>7, <1>8 DEF IInv, FileInv, EditsSurviveSaves
<1>10. ProcInv' /\ CountInv'
  BY <1>2 DEF IInv, ProcInv, LaunchSettingsStay, CountInv
<1> QED BY <1>6, <1>9, <1>10 DEF IInv

\* A completed save: file, running configuration and record agree, unless an
\* edit crossed it.
LEMMA SaveWritesInv == ASSUME IInv, save_writes PROVE IInv'
<1>1. PICK s : s = saving[1]
  OBVIOUS
<1>2. /\ saving' = <<>> /\ learned' = s.next[Learned]
      /\ proc' = [proc EXCEPT !.config = s.next]
      /\ file' \in IF s.phase = "crossed" THEN CrossedFiles(s.output, file)
                   ELSE {Toml(s.output)}
      /\ saving # <<>>
      /\ UNCHANGED <<disk, exited, edits, edited, torn, overlap, launch>>
  BY <1>1 DEF save_writes, Opened
<1>3. IsSave(s)
  BY <1>1, <1>2 DEF IInv, SaveInv
<1>4. IsFile(file')
  <2>1. CASE s.phase = "crossed"
    <3>1. PICK f, g : f = file /\ g = file'
      OBVIOUS
    <3>2. g \in CrossedFiles(s.output, f) /\ IsFile(f) /\ KnownAddresses(s.output)
      BY <1>2, <1>3, <2>1, <3>1 DEF IInv, FileInv, IsSave
    <3>3. IsFile(g)
      BY <3>2, CrossedFacts
    <3> QED BY <3>1, <3>3
  <2>2. CASE s.phase # "crossed"
    <3>1. file' = Toml(s.output) /\ file'.content = s.output
      BY <1>2, <2>2 DEF Toml
    <3> QED BY <1>3, <3>1 DEF IsFile, IsSave
  <2> QED BY <2>1, <2>2
<1>5. ASSUME ~overlap
      PROVE  LearnedIn(file') = learned' /\ file'.content = s.output /\ file'.kind = "toml"
  <2>1. file'.content = s.output /\ file'.kind = "toml"
    BY <1>2, <1>3, <1>5 DEF IsSave, Toml
  <2>2. PICK a \in Addresses : s.next[Learned] = switch_address_format_bytes(a)
    BY <1>3 DEF IsSave, AddressTexts
  <2>3. s.output[Learned] = <<"address", a, "upper">>
    BY <1>3, <2>2 DEF IsSave, switch_address_format_bytes
  <2>4. s.output[Learned][1] = "address" /\ s.output[Learned][2] = a
    BY <2>3
  <2> QED BY <1>2, <1>3, <2>1, <2>2, <2>4 DEF IsSave, LearnedIn
<1>6. FileInv'
  <2>1. ~torn /\ ~overlap => /\ UserPart(file') = UserPart(edited)
                             /\ edited.kind # "unreadable" /\ file'.kind = "toml"
    BY <1>3, <1>5 DEF IsSave, UserPart
  <2>2. EditsSurviveSaves'
    BY <1>2, <2>1 DEF EditsSurviveSaves
  <2> QED BY <1>2, <1>3, <1>4, <1>5, <2>2 DEF IInv, FileInv, IsSave
<1>7. ProcInv'
  <2>1. proc' = [running |-> proc.running, backend |-> proc.backend,
                 target |-> proc.target, config |-> s.next,
                 powered |-> proc.powered, requested |-> proc.requested]
    BY <1>2 DEF IInv, ProcInv
  <2>2. LaunchSettingsStay'
    BY <1>2, <1>3, <2>1 DEF IInv, ProcInv, LaunchSettingsStay, IsSave
  <2> QED BY <1>2, <1>3, <2>1, <2>2 DEF IInv, ProcInv, IsSave
<1>8. SaveInv' /\ CountInv'
  BY <1>2 DEF IInv, SaveInv, CountInv
<1> QED BY <1>6, <1>7, <1>8 DEF IInv

\* What a save that ends half way leaves is a file, and the file as it was if
\* the save had not opened it.
LEMMA LeftFacts ==
    ASSUME IInv, NEW f \in LeftBySave
    PROVE  IsFile(f) /\ (~Opened => f = file)
<1>1. CASE Opened
  <2>1. IsSave(saving[1])
    BY <1>1 DEF IInv, SaveInv, Opened
  <2>2. PICK output : output = saving[1].output /\ KnownAddresses(output)
    BY <2>1 DEF IsSave
  <2>3. f \in TornFiles(output) \/ f = file
    BY <1>1, <2>2 DEF LeftBySave
  <2> QED BY <1>1, <2>2, <2>3, TornFacts DEF IInv, FileInv
<1>2. CASE ~Opened
  BY <1>2 DEF LeftBySave, IInv, FileInv
<1> QED BY <1>1, <1>2

\* Any end of a save without its fclose: the file is what LeftFacts says, and
\* torn once it had been opened.
LEMMA LeftInv ==
    ASSUME IInv, file' \in LeftBySave, saving' = <<>>, torn' = (torn \/ Opened),
           UNCHANGED <<disk, edits, edited, learned, overlap>>,
           exited' \in {"none", "ok", "error"}
    PROVE  FileInv' /\ SaveInv' /\ CountInv'
<1>1. ~Opened'
  BY DEF Opened
<1>2. PICK f : f = file' /\ IsFile(f) /\ (~Opened => f = file)
  BY LeftFacts
<1>3. FileInv'
  BY <1>1, <1>2 DEF IInv, FileInv, EditsSurviveSaves
<1>4. torn' \in BOOLEAN
  BY DEF IInv, CountInv, Opened
<1> QED BY <1>3, <1>4 DEF IInv, SaveInv, CountInv

\* A failed save leaves a torn file, if it opened one, and the running
\* configuration.
LEMMA SaveFailsInv == ASSUME IInv, save_fails PROVE IInv'
<1>1. ProcInv'
  BY DEF IInv, ProcInv, LaunchSettingsStay, save_fails
<1>2. exited' \in {"none", "ok", "error"}
  BY DEF IInv, CountInv, save_fails
<1>3. FileInv' /\ SaveInv' /\ CountInv'
  BY <1>2, LeftInv DEF save_fails
<1> QED BY <1>1, <1>3 DEF IInv

\* Write-back copies a file.
LEMMA WriteBackInv == ASSUME IInv, write_back PROVE IInv'
<1>1. /\ disk' = file
      /\ UNCHANGED <<file, proc, saving, exited, edits, edited, learned, torn, overlap,
                     launch>>
  BY DEF write_back
<1>2. FileInv'
  BY <1>1 DEF IInv, FileInv, EditsSurviveSaves, Opened
<1>3. ProcInv' /\ SaveInv' /\ CountInv'
  BY <1>1 DEF IInv, ProcInv, LaunchSettingsStay, SaveInv, IsSave, CountInv
<1> QED BY <1>2, <1>3 DEF IInv

\* A process that is not running satisfies its part of the invariant.
LEMMA NotRunningInv == ASSUME proc' = NotRunning PROVE ProcInv'
BY DefaultIsConfig DEF ProcInv, NotRunning, LaunchSettingsStay

\* An orderly end leaves the file as it is.
LEMMA StopInv == ASSUME IInv, stop PROVE IInv'
<1>1. ProcInv'
  BY NotRunningInv DEF stop
<1>2. FileInv' /\ SaveInv' /\ CountInv'
  BY DEF IInv, FileInv, EditsSurviveSaves, Opened, SaveInv, CountInv, stop
<1> QED BY <1>1, <1>2 DEF IInv

\* The death of the process ends a save like a failure does.
LEMMA ProcessDiesInv == ASSUME IInv, process_dies PROVE IInv'
<1>1. ProcInv'
  BY NotRunningInv DEF process_dies
<1>2. exited' \in {"none", "ok", "error"}
  BY DEF process_dies
<1>3. FileInv' /\ SaveInv' /\ CountInv'
  BY <1>2, LeftInv DEF process_dies
<1> QED BY <1>1, <1>3 DEF IInv

\* After the death of the machine the file is the one the disk had or one that
\* is torn.
LEMMA MachineDiesInv == ASSUME IInv, machine_dies PROVE IInv'
<1>1. /\ file' \in {disk} \union
                   (IF file # disk THEN LeftBySave \union TornFiles(file.content) ELSE {})
      /\ disk' = file' /\ proc' = NotRunning /\ saving' = <<>> /\ exited' = "error"
      /\ torn' = (torn \/ Opened \/ file' # file)
      /\ UNCHANGED <<edits, edited, learned, overlap>>
  BY DEF machine_dies
<1>2. ProcInv'
  BY <1>1, NotRunningInv
<1>3. IsFile(file')
  <2>1. PICK f, content : f = file' /\ content = file.content
    OBVIOUS
  <2>2. f = disk \/ f \in LeftBySave \/ f \in TornFiles(content)
    BY <1>1, <2>1
  <2>3. KnownAddresses(content) /\ IsFile(disk)
    BY <2>1 DEF IInv, FileInv, IsFile
  <2>4. IsFile(f)
    BY <2>2, <2>3, LeftFacts, TornFacts
  <2> QED BY <2>1, <2>4
<1>4. ~Opened'
  BY <1>1 DEF Opened
<1>5. FileInv'
  BY <1>1, <1>3, <1>4 DEF IInv, FileInv, EditsSurviveSaves
<1>6. torn' \in BOOLEAN
  BY <1>1 DEF IInv, CountInv, Opened
<1>7. SaveInv' /\ CountInv'
  BY <1>1, <1>6 DEF IInv, SaveInv, CountInv
<1> QED BY <1>2, <1>5, <1>7 DEF IInv

\* Every step preserves the invariant.
LEMMA NextInv == IInv /\ [Next]_vars => IInv'
<1> SUFFICES ASSUME IInv, [Next]_vars PROVE IInv'
  OBVIOUS
<1>1. CASE UNCHANGED vars
  BY <1>1 DEF vars, IInv, FileInv, EditsSurviveSaves, Opened, ProcInv,
              LaunchSettingsStay, SaveInv, IsSave, CountInv
<1>2. CASE \E f \in Files : user_edits(f)
  BY <1>2, UserEditsInv
<1>3. CASE \E argv \in Argvs, env \in Envs : cli_dispatch(argv, env)
  BY <1>3, CliInv
<1>4. CASE \E argv \in Argvs, env \in Envs : main(argv, env)
  BY <1>4, MainInv
<1>5. CASE request_active
  BY <1>5, RequestInv
<1>6. CASE \E a \in Addresses : save_reads(a)
  BY <1>6, SaveReadsInv
<1>7. CASE save_opens
  BY <1>7, SaveOpensInv
<1>8. CASE save_writes
  BY <1>8, SaveWritesInv
<1>9. CASE save_fails
  BY <1>9, SaveFailsInv
<1>10. CASE write_back
  BY <1>10, WriteBackInv
<1>11. CASE stop
  BY <1>11, StopInv
<1>12. CASE process_dies
  BY <1>12, ProcessDiesInv
<1>13. CASE machine_dies
  BY <1>13, MachineDiesInv
<1> QED BY <1>1, <1>2, <1>3, <1>4, <1>5, <1>6, <1>7, <1>8, <1>9, <1>10, <1>11, <1>12,
           <1>13 DEF Next

-----------------------------------------------------------------------------
(* The theorems. *)

\* The invariant holds in every reachable state.
THEOREM SettingsInvariance == Spec => []IInv
BY InitInv, NextInv, PTL DEF Spec

\* Everything but the learned address is written back as the user left it,
\* for every content, environment and command line: the rewrite of the whole
\* file by save_active_reconnect_learned_switch_address loses no setting unless
\* the edit came between its read and its close, or the save failed or died
\* after the truncation, or was lost with the machine.
THEOREM EditsSurvive == Spec => []EditsSurviveSaves
<1>1. IInv => EditsSurviveSaves
  BY DEF IInv, FileInv
<1> QED BY <1>1, SettingsInvariance, PTL

\* A running daemon keeps the settings that defaults, file and environment
\* gave it at its launch, through edits of the file and saves.
THEOREM LaunchSettingsKept == Spec => []LaunchSettingsStay
<1>1. IInv => LaunchSettingsStay
  BY DEF IInv, ProcInv
<1> QED BY <1>1, SettingsInvariance, PTL

\* A launch on an intact file reconnects to the address the user set, else to
\* the last one saved (request_active reads the configuration of the launch,
\* whose learned address is the file's).
THEOREM ReconnectsToSavedSwitch == Spec => ReconnectsToLastSwitch
<1>1. IInv /\ [Next]_vars =>
        [ ~proc.powered /\ proc'.powered /\ launch.clean /\ proc.target =>
            LET wanted == IF proc.config[Explicit] # NoAddress
                          THEN proc.config[Explicit] ELSE launch.learned
            IN proc'.requested = IF wanted = NoAddress THEN "none" ELSE wanted[2]
        ]_vars
  <2> SUFFICES ASSUME IInv, Next, ~proc.powered, proc'.powered, launch.clean, proc.target,
                      NEW wanted, wanted = IF proc.config[Explicit] # NoAddress
                                           THEN proc.config[Explicit] ELSE launch.learned
               PROVE  proc'.requested = IF wanted = NoAddress THEN "none" ELSE wanted[2]
    OBVIOUS
  <2>1. CASE request_active
    <3>1. proc.config[Learned] = launch.learned
      BY <2>1 DEF IInv, ProcInv, request_active
    <3>2. wanted = effective_reconnect_switch_address(proc.config)
      BY <3>1 DEF effective_reconnect_switch_address
    <3>3. proc' = [proc EXCEPT !.powered = TRUE,
                     !.requested = IF wanted = NoAddress THEN "none" ELSE wanted[2]]
      BY <2>1, <3>2 DEF request_active, switch_address_parse_bytes
    <3> QED BY <3>3 DEF IInv, ProcInv
  <2>2. CASE proc' = NotRunning \/ UNCHANGED proc
    BY <2>2 DEF NotRunning
  <2>3. CASE save_writes
    <3>1. proc.powered
      BY <2>3 DEF IInv, SaveInv, IsSave, save_writes, Opened
    <3> QED BY <3>1
  <2>4. ASSUME NEW argv, NEW env, main(argv, env) PROVE FALSE
    <3>1. proc' = proc \/ proc'.powered = FALSE
      BY <2>4 DEF main, NotRunning
    <3> QED BY <3>1
  <2> QED BY <2>1, <2>2, <2>3, <2>4 DEF Next, user_edits, cli_dispatch, save_reads,
             StartSave, save_opens, save_fails, write_back, stop, process_dies, machine_dies
<1> QED BY <1>1, SettingsInvariance, PTL DEF Spec, ReconnectsToLastSwitch

Backend == proc.backend \in {"production", "noop"}

\* The type invariant of Settings. The backend is what launch_options_parse
\* returns, a fold over the arguments, which is taken as a hypothesis and
\* which TLC evaluates for the command lines of the run.
THEOREM SettingsTypeCorrect == ASSUME OptionsAreValid PROVE Spec => []TypeOK
<1>1. Init => Backend
  BY DEF Init, NotRunning, Backend
<1>2. IInv /\ Backend /\ [Next]_vars => Backend'
  <2> SUFFICES ASSUME IInv, Backend, [Next]_vars PROVE Backend'
    OBVIOUS
  <2>1. CASE proc' = NotRunning \/ UNCHANGED proc
    BY <2>1 DEF NotRunning, Backend
  <2>2. ASSUME NEW argv \in Argvs, NEW env \in Envs, main(argv, env) PROVE Backend'
    <3>1. proc' = proc \/ proc'.backend = launch_options_parse(argv).options["--backend"]
      BY <2>2 DEF main, NotRunning
    <3> QED BY <3>1 DEF Backend, OptionsAreValid
  <2>3. CASE request_active
    BY <2>3 DEF request_active, IInv, ProcInv, Backend
  <2>4. CASE save_writes
    BY <2>4 DEF save_writes, IInv, ProcInv, Backend
  <2> QED BY <2>1, <2>2, <2>3, <2>4 DEF Next, vars, user_edits, cli_dispatch, save_reads,
             StartSave, save_opens, save_fails, write_back, stop, process_dies, machine_dies
<1>3. IInv /\ Backend => TypeOK
  <2> SUFFICES ASSUME IInv, Backend PROVE TypeOK
    OBVIOUS
  <2>1. {file.kind, disk.kind} \subseteq {"absent", "unreadable", "toml"}
    BY DEF IInv, FileInv, IsFile, Absent, Unreadable, Toml
  <2>2. Len(saving) <= 1
    BY DEF IInv, SaveInv
  <2>3. PICK c : c = proc.config
    OBVIOUS
  <2>4. /\ Allowed(Period, c[Period]) /\ Allowed(Port, c[Port])
        /\ Allowed(Backlog, c[Backlog]) /\ Allowed(Heartbeat, c[Heartbeat])
        /\ Allowed(Explicit, c[Explicit]) /\ Allowed(Learned, c[Learned])
        /\ settings_usable(c)
    BY <2>3 DEF IInv, ProcInv, IsConfig, Keys
  <2>5. c[Port] \in 0..U16Max /\ c[Heartbeat] \in 0..U32Max
    BY <2>4 DEF Allowed
  <2>6. c[Period] \in 0..U32Max /\ c[Backlog] \in 0..IntMax
    BY <2>4 DEF Allowed
  <2>7. c[Period] # 0 /\ c[Backlog] > 0
    BY <2>4 DEF settings_usable
  <2>8. c[Period] \in 1..U32Max
    BY <2>6, <2>7
  <2>9. c[Backlog] \in 1..IntMax
    BY <2>6, <2>7
  <2>10. {c[Explicit], c[Learned]} \subseteq {NoAddress} \union AddressTexts
    BY <2>4 DEF Allowed
  <2> QED BY <2>1, <2>2, <2>3, <2>5, <2>8, <2>9, <2>10
          DEF IInv, FileInv, ProcInv, CountInv, Backend, TypeOK
<1> QED BY <1>1, <1>2, <1>3, SettingsInvariance, PTL DEF Spec
=============================================================================
