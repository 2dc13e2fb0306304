----------------------- MODULE MCCredentialTransaction -----------------------
(* AI with two providers and translation with its one, over two tokens. *)
EXTENDS CredentialTransaction, TLC

CONSTANTS ai, translation, deepseek, openai, deeplx

MCFeatures == {ai, translation}
MCOptional == {translation}
MCProviders == ai :> {deepseek, openai} @@ translation :> {deeplx}

Symmetry == Permutations(Tokens) \cup Permutations({deepseek, openai})

=============================================================================
