--------------------------- MODULE SettingsSchema ---------------------------
(***************************************************************************)
(* What config.ini may hold and what becomes of it: the fields with their  *)
(* legal values and defaults, reading a file field by field, the test      *)
(* before a write, the write itself, the rows of the settings window and   *)
(* the fields that are shared through the account.                         *)
(*                                                                         *)
(* A field is named by the identifier of its row.  Junk stands for every   *)
(* text a field's parser refuses; a text is empty, the default or another  *)
(* one, and an endpoint is empty or begins with https.                     *)
(***************************************************************************)
EXTENDS Integers, Sequences, SequencesExt, TLC

CONSTANTS
    Fields,        \* the fields a model follows
    Features,      \* those of AI, voice and translation it follows
    Absent,        \* the file has no such key
    Junk,
    None           \* no credential

VARIABLE config    \* config.ini, which every program of the desktop reads and writes

\* What is left of s when everything outside the set is removed.
Kept(s, set) ==
    LET kept[n \in 0 .. Len(s)] ==
            IF n = 0 THEN <<>>
            ELSE IF s[n] \in set THEN Append(kept[n - 1], s[n]) ELSE kept[n - 1]
    IN kept[Len(s)]

-----------------------------------------------------------------------------
(* The store's fields, in the order load() reads them *)

Choice(values, default) == [values |-> values, default |-> default]
Switches(ids, default) == [f \in ids |-> Choice(BOOLEAN, default)]
Optional == Choice({"", "text"}, "")
Required == Choice({"default", "text"}, "default")
Endpoint(default) == Choice({"", "https"}, default)

Modes == {"ime", "direct"}
Schemes == {"quanpin", "shuangpin", "wubi", "japanese"}
Locks == {"follow", "chinese", "english"}
Punctuations == {"chinese", "english"}
Styles == {"raw", "pinyin", "hidden"}
Layouts == {"vertical", "horizontal"}
Frequencies == {"disabled", "pin", "halve", "linear", "promote"}
Helpcodes == {"lantian", "ziranma", "shouyou2_0", "shouyouplus", "xiaohe"}
AiProviders == {"deepseek", "openai", "siliconflow", "groq", "custom"}
Translators == {"local", "deeplx"}
Languages == {"en", "fr", "ja", "es", "ru", "de", "ko"}

ModeFields ==
    "mode" :> Choice(Modes, "ime") @@ "default-mode" :> Choice(Modes, "ime")
    @@ "scheme" :> Choice(Schemes, "quanpin")
    @@ "page-size" :> Choice(3 .. 9, 9)
    @@ "punctuation-lock" :> Choice(Locks, "follow")
    @@ "punctuation" :> Choice(Punctuations, "chinese")

\* The width is a switch, full-width, in the file.
TypingFields ==
    "width" :> Choice({"half", "full"}, "half")
    @@ Switches({"comma-period-paging", "word-to-character", "smart-punctuation",
                 "smart-punctuation-repeat-to-chinese", "paired-punctuation"}, TRUE)
    @@ Switches({"bracket-paging"}, FALSE)
    @@ "preedit-style" :> Choice(Styles, "raw")
    @@ "candidate-window-layout" :> Choice(Layouts, "vertical")

LearningFields ==
    Switches({"quanpin-helpcode", "shuangpin-helpcode"}, TRUE)
    @@ [f \in {"quanpin-helpcode-schema", "shuangpin-helpcode-schema"} |->
            Choice(Helpcodes, "lantian")]
    @@ "frequency-adjustment" :> Choice(Frequencies, "promote")
    @@ [f \in {"frequency-trigger-count", "frequency-linear-step"} |->
            Choice(1 .. 10, 1)]

CandidateFields ==
    Switches({"unicode-mode", "super-jianpin-mode", "temporary-english-mode",
              "temporary-japanese-mode", "mixed-english-candidates",
              "mixed-emoji-candidates"}, TRUE)
    @@ Switches({"mixed-kaomoji-candidates"}, FALSE)
    @@ "mixed-english-minimum-prefix" :> Choice(1 .. 8, 2)

OnlineFields ==
    Switches({"cloud-enabled"}, TRUE) @@ Switches({"ai-enabled"}, FALSE)
    @@ "connect-timeout-ms" :> Choice(100 .. 10000, 2500)
    @@ "total-timeout-ms" :> Choice(500 .. 30000, 8000)
    @@ "ai-provider" :> Choice(AiProviders, "deepseek")
    @@ "ai-endpoint" :> Endpoint("")
    @@ [f \in {"ai-model", "ai-prompt"} |-> Optional]
    @@ "ai-candidate-limit" :> Choice(1 .. 10, 3)

TranslationFields ==
    Switches({"translation-enabled"}, TRUE)
    @@ "translation-provider" :> Choice(Translators, "local")
    @@ "translation-target-language" :> Choice(Languages, "en")
    @@ "translation-endpoint" :> Endpoint("")

ToolFields ==
    Switches({"quick-phrase-mode", "date-time-mode", "emoji-mode", "kaomoji-mode",
              "floating-toolbar", "show-quanpin-helpcode", "show-shuangpin-helpcode",
              "switch-language-shift", "switch-language-ctrl-alt-space"}, TRUE)
    @@ Switches({"clipboard-history", "switch-language-ctrl"}, FALSE)

\* The store takes any provider name; "azure" stands for one it is not offered.
VoiceFields ==
    Switches({"voice-enabled", "voice-polish-enabled"}, FALSE)
    @@ "voice-provider" :> Choice({"openai", "siliconflow", "groq", "custom", "azure"}, "openai")
    @@ [f \in {"voice-endpoint", "voice-polish-endpoint"} |-> Endpoint("https")]
    @@ [f \in {"voice-model", "voice-language", "voice-polish-model",
               "voice-polish-prompt"} |-> Required]

Schema ==
    ModeFields @@ TypingFields @@ LearningFields @@ CandidateFields @@ OnlineFields
    @@ TranslationFields @@ ToolFields @@ VoiceFields

Defaults == [f \in Fields |-> Schema[f].default]
Values == [f \in Fields |-> Schema[f].values]

ASSUME FieldsAssumption == Fields \subseteq DOMAIN Schema
ASSUME DefaultsAreLegal == \A f \in DOMAIN Schema : Schema[f].default \in Schema[f].values

-----------------------------------------------------------------------------
(* The file: its keys, a key the program does not know, an old plain token *)

Missing == [is |-> "missing"]    \* there is no config.ini
Broken == [is |-> "broken"]      \* config.ini does not parse
IsFile(c) == c.is = "file"

\* load(): each field on its own, the default for what cannot be used.
Load(c) ==
    IF IsFile(c)
    THEN [f \in Fields |-> IF c.keys[f] \in Values[f] THEN c.keys[f] ELSE Defaults[f]]
    ELSE Defaults

\* load() warns: not about a missing file, and not about a missing key.
LoadWarns(c) ==
    \/ c.is = "broken"
    \/ IsFile(c) /\ \E f \in Fields : c.keys[f] # Absent /\ c.keys[f] \notin Values[f]

\* A feature that is on needs its endpoint.
EndpointOf == "voice-enabled" :> "voice-endpoint"
              @@ "voice-polish-enabled" :> "voice-polish-endpoint"

\* valid_input_settings: also relates two fields, which load() does not.
Valid(s) ==
    /\ \A f \in Fields : s[f] \in Values[f]
    /\ \A f \in Fields \cap DOMAIN EndpointOf : s[f] => s[EndpointOf[f]] # ""

\* Mutant: old plain tokens stay in the file.
SerialiseKeepingSecrets(c, s) ==
    [is |-> "file", keys |-> s, extra |-> IsFile(c) /\ c.extra, plain |-> IsFile(c) /\ c.plain]

\* save_unlocked: every field is written, what the program does not know is
\* kept unless the file could not be parsed, plain tokens are removed.
Serialise(c, s) ==
    [is |-> "file", keys |-> s, extra |-> IsFile(c) /\ c.extra, plain |-> FALSE]

-----------------------------------------------------------------------------
(* The settings window's model: the fields, and a token and a clear request *)
(* for each feature.  A token is None, "typed", or the provider it was      *)
(* stored for.                                                              *)

Feature ==
    [voice |-> [enabled |-> "voice-enabled", provider |-> "voice-provider",
                credential |-> "voice-credential", clear |-> "voice-credential-clear"],
     ai |-> [enabled |-> "ai-enabled", provider |-> "ai-provider",
             credential |-> "ai-credential", clear |-> "ai-credential-clear"],
     translation |-> [enabled |-> "translation-enabled",
                      provider |-> "translation-provider",
                      credential |-> "translation-credential",
                      clear |-> "translation-credential-clear"]]

\* A feature is followed with its switch and its provider.
ASSUME FeaturesAssumption ==
    /\ Features \subseteq DOMAIN Feature
    /\ \A f \in Features : {Feature[f].enabled, Feature[f].provider} \subseteq Fields

CredentialRows == {Feature[f].credential : f \in Features}
ClearRows == {Feature[f].clear : f \in Features}
ProviderRows == {Feature[f].provider : f \in Features}
OwnerOf(id) == CHOOSE f \in Features :
                   id \in {Feature[f].credential, Feature[f].clear, Feature[f].provider}

Provider(m, f) == m.fields[Feature[f].provider]
Enabled(m, f) == m.fields[Feature[f].enabled]

\* The provider a credential is filed under; that of translation is always DeepLX.
Owner(m, f) == IF f = "translation" THEN "deeplx" ELSE Provider(m, f)

\* What Secret Service may have under a name; under the local backend there is nothing.
Filable(f, p) == IF f = "translation" /\ p # "deeplx" THEN {None} ELSE {None, p}

\* A credential is of use: only DeepLX translation authenticates.
Authenticates(m, f) ==
    Enabled(m, f) /\ (f = "translation" => Provider(m, f) = "deeplx")

\* load() with Secret Service: the tokens of the features that are on, but for
\* those whose lookup fails.
Hydrate(fields, secrets, down) ==
    LET m == [fields |-> fields, token |-> [f \in Features |-> None],
              cleared |-> [f \in Features |-> FALSE]]
    IN [m EXCEPT !.token = [f \in Features |->
            IF Authenticates(m, f) /\ f \notin down
            THEN secrets[f][Owner(m, f)] ELSE None]]

\* The lookups that add a warning: translation may go without a credential.
HydrateWarns(m, secrets, down) ==
    \E f \in Features : /\ Authenticates(m, f)
                        /\ \/ f \in down
                           \/ f # "translation" /\ secrets[f][Owner(m, f)] = None

\* rebuild_rows: the order of the rows is the order a page is applied in.
Rows == <<
    "mode", "default-mode", "scheme", "page-size", "candidate-window-layout",
    "punctuation", "punctuation-lock", "width", "preedit-style",
    "comma-period-paging", "word-to-character", "bracket-paging",
    "smart-punctuation", "smart-punctuation-repeat-to-chinese",
    "paired-punctuation", "quanpin-helpcode", "quanpin-helpcode-schema",
    "shuangpin-helpcode", "shuangpin-helpcode-schema", "show-quanpin-helpcode",
    "show-shuangpin-helpcode", "frequency-adjustment", "frequency-trigger-count",
    "frequency-linear-step", "unicode-mode", "super-jianpin-mode",
    "temporary-english-mode", "temporary-japanese-mode", "switch-language-shift",
    "switch-language-ctrl", "switch-language-ctrl-alt-space",
    "mixed-english-candidates", "mixed-english-minimum-prefix",
    "mixed-emoji-candidates", "mixed-kaomoji-candidates", "clipboard-history",
    "quick-phrase-mode", "date-time-mode", "emoji-mode", "kaomoji-mode",
    "floating-toolbar", "voice-enabled", "voice-provider",
    "voice-credential-clear", "voice-credential", "voice-endpoint", "voice-model",
    "voice-language", "voice-polish-enabled", "voice-polish-endpoint",
    "voice-polish-model", "voice-polish-prompt", "cloud-enabled",
    "connect-timeout-ms", "total-timeout-ms", "ai-enabled", "ai-provider",
    "ai-credential-clear", "ai-credential", "ai-endpoint", "ai-model", "ai-prompt",
    "ai-candidate-limit", "translation-enabled", "translation-provider",
    "translation-credential-clear", "translation-credential",
    "translation-target-language", "translation-endpoint">>

\* Credential rows are shown while the feature has a use for them.
Visible(m, id) ==
    id \in CredentialRows \cup ClearRows => Authenticates(m, OwnerOf(id))

\* What a row shows: of a credential only that there is one.
RowValue(m, id) ==
    CASE id \in ClearRows -> m.cleared[OwnerOf(id)]
      [] id \in CredentialRows -> IF m.token[OwnerOf(id)] = None THEN "" ELSE "stored"
      [] OTHER -> m.fields[id]

Section(id) ==
    CASE id \in {"page-size", "candidate-window-layout", "punctuation",
                 "punctuation-lock", "width", "preedit-style", "smart-punctuation",
                 "smart-punctuation-repeat-to-chinese", "paired-punctuation",
                 "bracket-paging", "word-to-character"} -> "Appearance"
      [] id \in {"mode", "default-mode", "scheme", "comma-period-paging",
                 "mixed-english-candidates", "mixed-english-minimum-prefix",
                 "mixed-emoji-candidates", "mixed-kaomoji-candidates"} -> "Input"
      [] id \in {"quanpin-helpcode", "quanpin-helpcode-schema",
                 "shuangpin-helpcode", "shuangpin-helpcode-schema",
                 "show-quanpin-helpcode", "show-shuangpin-helpcode"} -> "Helpcode"
      [] id \in {"unicode-mode", "super-jianpin-mode", "temporary-english-mode",
                 "temporary-japanese-mode", "switch-language-shift",
                 "switch-language-ctrl", "switch-language-ctrl-alt-space"} -> "Shortcuts"
      [] id \in {"frequency-adjustment", "frequency-trigger-count",
                 "frequency-linear-step"} -> "Dictionary"
      [] id \in {"voice-credential", "voice-credential-clear"} \cup DOMAIN VoiceFields -> "Voice"
      [] id \in {"clipboard-history", "floating-toolbar", "quick-phrase-mode",
                 "date-time-mode", "emoji-mode", "kaomoji-mode"} -> "Utility"
      [] OTHER -> "Online"

-----------------------------------------------------------------------------
(* SettingsUiModel::set *)

\* The rows whose choices or bounds set() spells out for itself.
UiChoices ==
    [f \in {"mode", "default-mode"} |-> {"ime", "direct"}]
    @@ "scheme" :> {"quanpin", "shuangpin", "wubi", "japanese"}
    @@ "page-size" :> 3 .. 9
    @@ "punctuation" :> {"chinese", "english"}
    @@ "punctuation-lock" :> {"follow", "chinese", "english"}
    @@ "width" :> {"half", "full"}
    @@ "preedit-style" :> {"raw", "pinyin", "hidden"}
    @@ "candidate-window-layout" :> {"vertical", "horizontal"}

UiLists ==
    [f \in {"quanpin-helpcode-schema", "shuangpin-helpcode-schema"} |->
        {"lantian", "ziranma", "shouyou2_0", "shouyouplus", "xiaohe"}]
    @@ "frequency-adjustment" :> {"disabled", "pin", "halve", "linear", "promote"}
    @@ [f \in {"frequency-trigger-count", "frequency-linear-step"} |-> 1 .. 10]
    @@ "mixed-english-minimum-prefix" :> 1 .. 8
    @@ "connect-timeout-ms" :> 100 .. 10000
    @@ "total-timeout-ms" :> 500 .. 30000
    @@ "ai-provider" :> {"deepseek", "openai", "siliconflow", "groq", "custom"}
    @@ "voice-provider" :> {"openai", "siliconflow", "groq", "custom"}
    @@ "ai-candidate-limit" :> 1 .. 10
    @@ "translation-provider" :> {"local", "deeplx"}
    @@ "translation-target-language" :> {"en", "fr", "ja", "es", "ru", "de", "ko"}

UiValues == UiChoices @@ UiLists
    @@ [f \in DOMAIN Schema \ DOMAIN (UiChoices @@ UiLists) |-> Schema[f].values]

\* The window takes what the store takes, but for a free voice provider.
ASSUME WindowMirrorsStore ==
    \A f \in DOMAIN Schema :
        UiValues[f] \subseteq Schema[f].values
            /\ (f # "voice-provider" => UiValues[f] = Schema[f].values)

Offered == [f \in Fields |-> UiValues[f]]

Accepts(m, id, v) ==
    /\ id \in ClearRows => v \in BOOLEAN
    /\ id \in CredentialRows => v # Junk
    /\ id \notin ClearRows \cup CredentialRows =>
          /\ v \in Offered[id]
          /\ \A f \in Fields \cap DOMAIN EndpointOf :
                 EndpointOf[f] = id /\ m.fields[f] => v # ""

SetClear(m, id, v) ==
    LET f == OwnerOf(id)
    IN [m EXCEPT !.cleared[f] = v, !.token[f] = IF v THEN None ELSE @]

\* An empty entry keeps what is stored; a new credential unticks the clear row.
SetCredential(m, id, v) ==
    LET f == OwnerOf(id)
    IN IF v = "" THEN m ELSE [m EXCEPT !.token[f] = v, !.cleared[f] = FALSE]

\* Another provider drops the token of the old one.
SetProvider(m, id, v) ==
    LET f == OwnerOf(id)
    IN [m EXCEPT !.fields[id] = v, !.token[f] = IF v = m.fields[id] THEN @ ELSE None]

Set(m, id, v) ==
    CASE id \in ClearRows -> SetClear(m, id, v)
      [] id \in CredentialRows -> SetCredential(m, id, v)
      [] id \in ProviderRows -> SetProvider(m, id, v)
      [] OTHER -> [m EXCEPT !.fields[id] = v]

-----------------------------------------------------------------------------
(* CloudSettingsMapper *)

Bindings == {
    "page-size", "candidate-window-layout", "comma-period-paging", "bracket-paging",
    "word-to-character", "smart-punctuation", "smart-punctuation-repeat-to-chinese",
    "paired-punctuation", "quanpin-helpcode", "quanpin-helpcode-schema",
    "shuangpin-helpcode", "shuangpin-helpcode-schema", "show-quanpin-helpcode",
    "show-shuangpin-helpcode", "frequency-trigger-count", "frequency-linear-step",
    "unicode-mode", "super-jianpin-mode", "switch-language-shift",
    "switch-language-ctrl", "switch-language-ctrl-alt-space",
    "mixed-english-candidates", "mixed-english-minimum-prefix",
    "mixed-emoji-candidates", "mixed-kaomoji-candidates", "quick-phrase-mode",
    "date-time-mode", "emoji-mode", "kaomoji-mode", "floating-toolbar",
    "voice-enabled", "voice-provider", "voice-model", "voice-language",
    "voice-polish-enabled", "voice-polish-prompt", "cloud-enabled", "ai-enabled",
    "ai-provider", "ai-model", "ai-prompt", "ai-candidate-limit",
    "translation-enabled"}

\* Nothing that redirects a request, carries a credential or is local consent.
ASSUME BindingsAreShareable ==
    /\ Bindings \subseteq DOMAIN Schema
    /\ Bindings \cap {"ai-endpoint", "translation-endpoint", "voice-endpoint",
                    "voice-polish-endpoint", "mode", "default-mode",
                    "clipboard-history"} = {}

\* export_settings: the shared fields as the rows show them.
Export(m) == [f \in Fields \cap Bindings |-> RowValue(m, f)]

\* prepare_upload: what this program does not know stays on the server.
PrepareUpload(m, remote) ==
    [f \in DOMAIN remote \cup DOMAIN Export(m) |->
        IF f \in DOMAIN Export(m) THEN Export(m)[f] ELSE remote[f]]

\* prepare_download refuses another provider, another provider's model, and
\* what the window would refuse.
DownloadRefused(m, remote) ==
    LET shared == DOMAIN remote \cap DOMAIN Export(m)
    IN \/ \E f \in shared \cap ProviderRows : remote[f] # m.fields[f]
       \/ \E pair \in {<<"ai-provider", "ai-model">>, <<"voice-provider", "voice-model">>} :
              /\ pair[1] \notin shared /\ pair[2] \in shared
              /\ remote[pair[2]] # m.fields[pair[2]]
       \/ \E f \in shared : remote[f] # m.fields[f] /\ ~Accepts(m, f, remote[f])

PrepareDownload(m, remote) ==
    [m EXCEPT !.fields = [f \in Fields |-> IF f \in DOMAIN remote \cap Bindings
                                          THEN remote[f] ELSE @[f]]]
=============================================================================
