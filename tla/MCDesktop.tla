------------------------------ MODULE MCDesktop ------------------------------
(* Two features: voice, whose credential is required, with two providers     *)
(* offered and one only a file names; translation, which only DeepLX         *)
(* authenticates, beside the local backend.                                  *)
EXTENDS Desktop

MCFields == {"clipboard-history", "voice-enabled", "voice-provider", "voice-endpoint",
             "translation-enabled", "translation-provider"}

MCInputs ==
    "voice-enabled" :> BOOLEAN
    @@ "voice-provider" :> {"openai", "groq"}
    @@ "voice-credential-clear" :> BOOLEAN
    @@ "voice-credential" :> {"", "typed"}
    @@ "voice-endpoint" :> {"https"}
    @@ "translation-enabled" :> {FALSE}
    @@ "translation-provider" :> {"local", "deeplx"}
    @@ "translation-credential-clear" :> BOOLEAN
    @@ "translation-credential" :> {"", "typed"}

\* The page of one feature at a time.
MCTours == "voice" :> {"Voice", "Account"} @@ "translation" :> {"Online"}

MCRaw == "voice-enabled" :> {Junk} @@ "voice-provider" :> {"azure"}

MCFile(clip, on, endpoint) ==
    [is |-> "file",
     keys |-> "clipboard-history" :> clip @@ "voice-enabled" :> on
              @@ "voice-provider" :> "openai" @@ "voice-endpoint" :> endpoint
              @@ "translation-enabled" :> TRUE @@ "translation-provider" :> "local",
     extra |-> TRUE, plain |-> TRUE]

MCConfigs == {Missing, MCFile(TRUE, TRUE, "https"), MCFile(TRUE, FALSE, "")}

MCVaults ==
    {[voice |-> [p \in Schema["voice-provider"].values |-> IF p \in stored THEN p ELSE None],
      translation |-> [p \in Translators |-> IF p \in stored THEN p ELSE None]] :
        stored \in {{"openai"}, {"groq", "deeplx"}}}

MCRemotes ==
    {("voice-enabled" :> TRUE), ("voice-provider" :> "groq"),
     ("voice-enabled" :> FALSE @@ "voice-provider" :> "openai" @@ "a field of Windows" :> 1)}
=============================================================================
