--------------------------- MODULE MCAITransfers ---------------------------
(***************************************************************************)
(* A small instance of AITransfers for TLC, after providers.yaml and       *)
(* registry.yaml: one model of each of three providers, preferred in the   *)
(* order Vertex, Anthropic, OpenAI; sizes in units of which the inline     *)
(* threshold is 2, a model's inline limits 3 and 4, Anthropic's files 5    *)
(* and the largest file 6.                                                 *)
(***************************************************************************)
EXTENDS AITransfers, TLC

Documents == {"pdf", "text"}
Pdf(max) == [mimes |-> {"pdf"}, max |-> max]
Carries(lifecycles, max) ==
    [lifecycles |-> lifecycles, mimes |-> {"pdf"}, max |-> max, expires |-> FALSE]
Expires(max) == [Carries({"transient"}, max) EXCEPT !.expires = TRUE]
InlineContract ==
    [lifecycles |-> Lifecycles, mimes |-> MimeTypes, max |-> 2, expires |-> FALSE]

UploadLimits(max) == ("provider_upload" :> Pdf(max)) @@ ("managed_signed_url" :> Pdf(max))

Model(provider, order, mimes, limits) ==
    [provider |-> provider, order |-> order, eligible |-> TRUE, documents |-> TRUE,
     vision |-> FALSE, perFile |-> 3, total |-> 4, mimes |-> mimes,
     modes |-> {Inline} \union DOMAIN limits, limits |-> limits]

MCModelOf ==
    ("gemini" :> Model("vertex", 1, Documents, "storage_reference" :> Pdf(6)))
    @@ ("claude" :> Model("anthropic", 2, {"pdf"}, UploadLimits(5)))
    @@ ("gpt" :> Model("openai", 3, Documents, UploadLimits(6)))
MCModels == DOMAIN MCModelOf

MCContract ==
    ("vertex" :> ((Inline :> InlineContract)
                  @@ ("storage_reference" :> Carries(Lifecycles, 6))))
    @@ ("anthropic" :> ((Inline :> InlineContract)
                        @@ ("provider_upload" :> Carries({"transient"}, 5))
                        @@ ("managed_signed_url" :> Carries({"retained"}, 5))))
    @@ ("openai" :> ((Inline :> InlineContract)
                     @@ ("provider_upload" :> Expires(6))
                     @@ ("managed_signed_url" :> Carries({"retained"}, 6))))
MCProviders == DOMAIN MCContract

MCRegionOf == ("vertex" :> "eu") @@ ("anthropic" :> "global") @@ ("openai" :> "eu")
MCTask ==
    [modes |-> Modes, fallback |-> TRUE, sameProvider |-> FALSE, allowLocal |-> TRUE]
MCDeployment == [threshold |-> 2, max |-> 6, modes |-> Modes \ {Inline}]

PrivateBucket == [owned |-> TRUE, location |-> "eu", singleRegion |-> TRUE,
                  uniform |-> TRUE, public |-> FALSE]
PublicBucket == [PrivateBucket EXCEPT !.public = TRUE]

\* Of any provider and model, or of what the settings name.
Policy(modes, max, providers) ==
    [modes |-> modes, max |-> max, providers |-> providers, models |-> {},
     provider |-> Unset, model |-> Unset]
Forced(modes, provider, model) ==
    [Policy(modes, 6, {}) EXCEPT !.provider = provider, !.model = model]

Stored(scratch, size) ==
    [stored |-> TRUE, scratch |-> scratch, sizes |-> <<size>>, mimes |-> <<"pdf">>]
Scratch(size) == Stored(TRUE, size)
Document(size) == Stored(FALSE, size)
Given(sizes, mimes) ==
    [stored |-> FALSE, scratch |-> TRUE, sizes |-> sizes, mimes |-> mimes]

Scenario(tries, used, settings, file) ==
    [policy |-> settings, source |-> file, tries |-> tries, used |-> used,
     local |-> FALSE, bucket |-> PrivateBucket,
     uploads |-> MaxUploads, ages |-> TRUE]
Local(s) == [s EXCEPT !.local = TRUE]
Ageless(s) == [s EXCEPT !.ages = FALSE]
OneUpload(s) == [s EXCEPT !.uploads = 1]
Exposed(s) == [s EXCEPT !.bucket = PublicBucket]

FilesAPIs == {"anthropic", "openai"}
UploadModes == {Inline, "provider_upload"}

\* Executions that fall back, in the job's last attempt.
FallingBack ==
    <<Scenario(2, 1, Policy(Modes, 6, {}), Scratch(5)),
     Scenario(2, 1, Policy(UploadModes, 6, FilesAPIs), Scratch(4)),
     Scenario(2, 1, Forced(UploadModes, "openai", Unset), Scratch(4)),
     Scenario(2, 1, Forced(UploadModes, "openai", "gpt"), Scratch(4)),
     Scenario(2, 1, Policy(Modes, 6, FilesAPIs), Document(4)),
     Local(Scenario(2, 1, Policy(UploadModes, 6, {"anthropic"}), Scratch(4)))>>

\* Attempts that overlap, with one copy while things grow old or with two.
TakenOver ==
    <<Scenario(1, 0, Policy(Modes, 6, {}), Scratch(6)),
     OneUpload(Scenario(1, 0, Policy(UploadModes, 6, {"anthropic"}), Scratch(4))),
     Ageless(Scenario(1, 0, Policy(UploadModes, 6, {"anthropic"}), Scratch(4)))>>

\* Sources that are read into memory, one above the organisation's ceiling and one
\* that is too large for the model the router commits to, and a public bucket.
Refused ==
    <<Scenario(2, 0, Policy(UploadModes, 6, {}), Given(<<1, 1>>, <<"pdf", "text">>)),
     Scenario(2, 0, Policy(UploadModes, 6, {}), Given(<<3>>, <<"pdf">>)),
     Scenario(2, 0, Policy(UploadModes, 3, FilesAPIs), Scratch(4)),
     Scenario(2, 0, Policy(UploadModes, 6, FilesAPIs), Scratch(6)),
     Exposed(Scenario(2, 0, Policy(Modes, 6, {"vertex"}), Document(4)))>>

MCScenarios == FallingBack \o TakenOver \o Refused

Sym == Permutations(Handlers)
=============================================================================
