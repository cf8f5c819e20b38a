-------------------------- MODULE TransferRouting --------------------------
(***************************************************************************)
(* How an AI request finds its model and the mode in which its source is   *)
(* handed over: CapabilityCostModelRegistry.route (ai/registry.py), the    *)
(* selectors of ai/transfer.py and the gate of ai/service.py that calls    *)
(* them.  A source is a sequence of attachments, of which the operators    *)
(* see the sizes and the MIME types.                                       *)
(***************************************************************************)
EXTENDS Naturals, Sequences, SequencesExt, FiniteSetsExt

CONSTANTS
    Models, Providers, Regions,
    ModelOf,         \* [Models -> ModelDefinition]
    Contract,        \* [Providers -> the modes of the provider's contract]
    RegionOf,        \* [Providers -> Regions]
    Unpinned,        \* the region of a provider that has none
    Task,            \* the TaskDefinition: its modes and its FallbackPolicy
    Deployment,      \* the TransferDeploymentPolicy
    InlineMax,       \* INLINE_AGGREGATE_THRESHOLD_BYTES
    TemplateMax      \* MAX_LARGE_ATTACHMENT_BYTES

Inline == "inline"
Modes == {Inline, "provider_upload", "managed_signed_url", "storage_reference"}
NoMode == "none"
NoModel == "none"
MimeTypes == {"pdf", "text", "image"}
Lifecycles == {"transient", "retained"}

\* What one mode can carry, of a model or of a provider's contract.
Ceiling == [mimes : SUBSET MimeTypes, max : Nat]
ContractMode ==
    [lifecycles : SUBSET Lifecycles, mimes : SUBSET MimeTypes, max : Nat,
     expires : BOOLEAN]      \* upload_lifecycle: the provider deletes it by itself

ModelDefinition == [
    provider : Providers, order : Nat,      \* its place by preference, priority and id
    eligible : BOOLEAN,                     \* by availability, capabilities, tiers and cost
    documents : BOOLEAN, vision : BOOLEAN,
    perFile : Nat, total : Nat, mimes : SUBSET MimeTypes,
    modes : SUBSET Modes]

ProviderOf(m) == ModelOf[m].provider

-----------------------------------------------------------------------------
(* What the registry and the provider contracts are checked for at start.  *)

Reviewed(mode) ==
    CASE mode = "provider_upload" -> {"transient"}
      [] mode = "managed_signed_url" -> {"retained"}
      [] OTHER -> Lifecycles

\* ProviderTransferContract: inline carries everything up to the threshold, the
\* other modes one larger PDF of the reviewed lifecycles.
ContractIsReviewed(p) ==
    \A mode \in DOMAIN Contract[p] :
        LET c == Contract[p][mode] IN
        /\ c.lifecycles = Reviewed(mode)
        /\ c.expires => mode = "provider_upload"
        /\ \/ mode = Inline /\ c.max = InlineMax
           \/ /\ mode # Inline
              /\ c.mimes \subseteq {"pdf"}
              /\ InlineMax < c.max /\ c.max <= TemplateMax

\* validate_transfer_contracts
ContractsAgree ==
    \A p \in Providers :
        /\ \E modes \in SUBSET Modes : Contract[p] \in [modes -> ContractMode]
        /\ DOMAIN Contract[p] # {} => Inline \in DOMAIN Contract[p]
        /\ ContractIsReviewed(p)

\* ModelDefinition: limits for exactly the other modes it allows, all above the
\* threshold; attachments of any kind only with the documents capability.
ModelIsValid(m) ==
    LET model == ModelOf[m]
        others == model.modes \ {Inline}
    IN  /\ model.documents <=> model.mimes # {}
        /\ model.perFile <= model.total
        /\ others # {} => model.documents
        /\ model.limits \in [others -> Ceiling]
        /\ \A mode \in others : /\ model.limits[mode].mimes \subseteq {"pdf"}
                               /\ InlineMax < model.limits[mode].max

\* _model_supports_transfer_mode
Supports(m, mode) ==
    LET contract == Contract[ProviderOf(m)] IN
    /\ mode \in ModelOf[m].modes \cap DOMAIN contract
    /\ ModelOf[m].limits[mode].mimes \subseteq contract[mode].mimes
    /\ ModelOf[m].limits[mode].max <= contract[mode].max

\* validate_registry_bundle
BundleIsValid ==
    /\ \A m \in Models : \A mode \in ModelOf[m].modes \ {Inline} : Supports(m, mode)
    /\ \A mode \in Task.modes \ {Inline} : \E m \in Models : Supports(m, mode)

\* validate_transfer_deployment: each mode it enables is in some provider's contract.
DeploymentIsValid ==
    /\ {Deployment.threshold, Deployment.max} \subseteq Nat
    /\ 1 <= Deployment.threshold /\ Deployment.threshold <= InlineMax
    /\ 1 <= Deployment.max /\ Deployment.max <= TemplateMax
    /\ Deployment.modes # {} => Deployment.threshold < Deployment.max
    /\ Deployment.modes \subseteq Modes \ {Inline}
    /\ \A mode \in Deployment.modes : \E p \in Providers : mode \in DOMAIN Contract[p]

ASSUME RoutingAssumption ==
    /\ Unpinned \in Regions
    /\ NoModel \notin Models
    /\ {InlineMax, TemplateMax} \subseteq Nat
    /\ \A m \in Models :
         /\ DOMAIN ModelOf[m] = {"provider", "order", "eligible", "documents", "vision",
                                 "perFile", "total", "mimes", "modes", "limits"}
         /\ [f \in DOMAIN ModelOf[m] \ {"limits"} |-> ModelOf[m][f]] \in ModelDefinition
         /\ ModelIsValid(m)
    /\ ContractsAgree
    /\ BundleIsValid
    /\ DeploymentIsValid
    /\ RegionOf \in [Providers -> Regions]

-----------------------------------------------------------------------------
(* The organisation's settings: [providers, models, provider, model, modes, *)
(* max], where an empty allowlist does not restrict and Unset forces        *)
(* nothing.                                                                 *)

Unset == "unset"

\* _validate_policy_identifiers: what is forced is allowed and agrees.
IdentifiersAreValid(policy) ==
    /\ policy.providers \subseteq Providers /\ policy.models \subseteq Models
    /\ policy.provider # Unset =>
         /\ policy.provider \in Providers
         /\ policy.providers = {} \/ policy.provider \in policy.providers
    /\ policy.model # Unset =>
         /\ policy.model \in Models
         /\ policy.models = {} \/ policy.model \in policy.models
         /\ policy.provider \in {Unset, ProviderOf(policy.model)}

\* _validate_transfer_policy
PolicyIsValid(policy) ==
    /\ policy.modes \subseteq Modes /\ Inline \in policy.modes
    /\ 1 <= policy.max /\ policy.max <= TemplateMax
    /\ policy.modes # {Inline} => InlineMax < policy.max

\* _merge_restriction_list, of sets of which the full one does not restrict.
Restricted(allowed, all) == IF allowed = {} THEN all ELSE allowed

\* _merge_organisation_policy: the caller restricts nothing.
AllowedProviders(policy) ==
    Restricted(policy.providers, Providers)
        \cap IF policy.provider = Unset THEN Providers ELSE {policy.provider}
AllowedModels(policy) ==
    Restricted(policy.models, Models)
        \cap IF policy.model = Unset THEN Models ELSE {policy.model}

-----------------------------------------------------------------------------
(* A source: its attachments, or one large file that was only headed.      *)

Source ==
    [stored : BOOLEAN, scratch : BOOLEAN, sizes : Seq(Nat), mimes : Seq(MimeTypes)]

SourceIsGiven(source) ==
    /\ source \in Source
    /\ Len(source.sizes) = Len(source.mimes) /\ source.sizes # << >>

Aggregate(source) ==
    LET sum[i \in 0..Len(source.sizes)] == IF i = 0 THEN 0 ELSE sum[i - 1] + source.sizes[i]
    IN  sum[Len(source.sizes)]
MimesOf(source) == {source.mimes[i] : i \in DOMAIN source.mimes}
OnePdf(source) == source.mimes = <<"pdf">>

\* source_lifecycle_for_reference
LifecycleOf(source) == IF source.scratch THEN "transient" ELSE "retained"

\* _head_large_source: a stored object above the threshold is not read.
Large(source) == source.stored /\ Aggregate(source) > Deployment.threshold

\* _resolve_attachments: what the router is given.
Attachments(source) == IF Large(source) THEN << >> ELSE source.sizes

\* _model_can_carry_attachments and ModelInlineCeiling.can_carry
CanCarryInline(m, source) ==
    /\ ModelOf[m].documents
    /\ \A i \in DOMAIN source.sizes : source.sizes[i] <= ModelOf[m].perFile
    /\ Aggregate(source) <= ModelOf[m].total
    /\ MimesOf(source) \subseteq ModelOf[m].mimes
    /\ "image" \in MimesOf(source) => ModelOf[m].vision

Within(ceiling, source) ==
    MimesOf(source) \subseteq ceiling.mimes /\ Aggregate(source) <= ceiling.max

\* _model_can_carry_attachment_set
CanCarrySet(m, source) ==
    \/ CanCarryInline(m, source)
    \/ /\ OnePdf(source)
       /\ Aggregate(source) <= TemplateMax
       /\ \E mode \in DOMAIN ModelOf[m].limits : Within(ModelOf[m].limits[mode], source)

-----------------------------------------------------------------------------
(* The mode.                                                               *)

Threshold == Deployment.threshold

\* select_transfer_mode: inline up to the threshold, above it the first mode
\* of the lifecycle's priority.
SelectTransferMode(source, allowed, contract) ==
    LET Eligible(mode) ==
            /\ mode \in allowed
            /\ mode \in DOMAIN contract
            /\ LifecycleOf(source) \in contract[mode].lifecycles
            /\ Aggregate(source) <= contract[mode].max
        first == IF source.scratch
                 THEN "provider_upload" ELSE "managed_signed_url"
    IN  IF Aggregate(source) <= Threshold /\ Eligible(Inline) THEN Inline
        ELSE IF Eligible(first) THEN first
        ELSE IF Eligible("storage_reference") THEN "storage_reference"
        ELSE NoMode

\* What the organisation, the task, the model and the deployment allow.
AllowedModes(m, policy, source) ==
    {mode \in policy.modes \cap Task.modes \cap ModelOf[m].modes
                           \cap (Deployment.modes \union {Inline}) :
        IF mode = Inline THEN CanCarryInline(m, source)
                         ELSE Aggregate(source) <= policy.max
                              /\ Aggregate(source) <= Deployment.max}

\* select_transfer_mode_for_policy
ModeForPolicy(m, policy, source) ==
    LET allowed == AllowedModes(m, policy, source)
        small == Aggregate(source) <= Threshold
        others == allowed \ {Inline}
        fitting == {mode \in others : Within(ModelOf[m].limits[mode], source)}
        contract == Contract[ProviderOf(m)]
    IN  CASE small /\ Inline \notin allowed -> NoMode
          [] small /\ Inline \in allowed -> SelectTransferMode(source, allowed, contract)
          [] ~small /\ others # {} /\ ~OnePdf(source) -> NoMode
          [] OTHER -> SelectTransferMode(source, fitting, contract)

-----------------------------------------------------------------------------
(* The model.                                                              *)

\* Mutant of Carriers: the router asks only what a model can carry.
Carriers_AnyMode(policy, source) ==
    {m \in Models : ModelOf[m].eligible /\ (Attachments(source) = << >> \/ CanCarrySet(m, source))}

\* The candidates for what was read of the source: for a file that was only
\* headed, the router is given no attachments and asks nothing of them.
Carriers(policy, source) ==
    {m \in Models :
        /\ ModelOf[m].eligible
        /\ \/ Attachments(source) = << >>
           \/ CanCarrySet(m, source) /\ ModeForPolicy(m, policy, source) # NoMode}

\* Mutant of SameRegion: a fallback goes wherever a model is.
SameRegion_Anywhere(m, excluded) == TRUE

\* A model that is pinned to a region is replaced within it.
SameRegion(m, excluded) ==
    LET pinned == {RegionOf[ProviderOf(e)] : e \in excluded} \ {Unpinned}
    IN  pinned # {} => RegionOf[ProviderOf(m)] \in pinned

FallbackAllows(m, excluded) ==
    excluded # {} =>
        /\ Task.fallback
        /\ Task.sameProvider => ProviderOf(m) \in {ProviderOf(e) : e \in excluded}
        /\ Task.allowLocal \/ ProviderOf(m) # "local"
        /\ SameRegion(m, excluded)

\* CapabilityCostModelRegistry.route
Route(policy, source, excluded) ==
    LET candidates == {m \in Carriers(policy, source) \ excluded :
                          /\ ProviderOf(m) \in AllowedProviders(policy)
                          /\ m \in AllowedModels(policy)
                          /\ FallbackAllows(m, excluded)}
    IN  IF candidates = {} THEN NoModel
        ELSE CHOOSE m \in candidates :
                 \A n \in candidates : ModelOf[m].order <= ModelOf[n].order
=============================================================================
