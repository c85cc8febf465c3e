--------------------------- MODULE MCParts_proofs ---------------------------
(***************************************************************************)
(* Putting the parts side by side takes nothing from them and adds nothing *)
(* to them: a behaviour of MCParts is a behaviour of every part at once,   *)
(* so what is proved of a part by itself holds in the run `parts`.         *)
(***************************************************************************)
EXTENDS MCParts, ApiGateway_proofs, Browser_proofs, BackendParts_proofs

\* Every part as its own module specifies it.
EveryPart ==
    /\ Spec /\ CacheSpec /\ DialogSpec /\ SearchSpec /\ FilterSpec /\ EditSpec
    /\ SaveSpec /\ WizardSpec /\ UndoSpec /\ VaultSpec /\ NightlySpec

\* What a part does when it is its turn is a step of its own, and it rests otherwise.
LEMMA StepOfEveryPart ==
    ASSUME PartsNext
    PROVE  /\ [Next]_gatewayVars /\ [CacheNext]_cacheVars /\ [DialogNext]_dialogVars
           /\ [SearchNext]_searchVars /\ [FilterNext]_filterVars /\ [EditNext]_editVars
           /\ [SaveNext]_saveVars /\ [WizardNext]_wizardVars /\ [UndoNext]_undoVars
           /\ [VaultNext]_vaultVars /\ [NightlyNext]_nightlyVars
  BY DEF PartsNext, AsideFrom

\* The same of a step in which nothing happens.
LEMMA RestOfEveryPart ==
    ASSUME UNCHANGED AllVars
    PROVE  /\ UNCHANGED gatewayVars /\ UNCHANGED cacheVars /\ UNCHANGED dialogVars
           /\ UNCHANGED searchVars /\ UNCHANGED filterVars /\ UNCHANGED editVars
           /\ UNCHANGED saveVars /\ UNCHANGED wizardVars /\ UNCHANGED undoVars
           /\ UNCHANGED vaultVars /\ UNCHANGED nightlyVars
  BY DEF AllVars

\* A behaviour of the parts side by side is one of each part by itself: the gateway, the
\* cache, the screens, the vault and the nightly job do what their own code does.
THEOREM SideBySideIsEach == PartsSpec => EveryPart
<1>1. PartsInit =>
        /\ Init /\ CacheInit /\ DialogInit /\ SearchInit /\ FilterInit /\ EditInit
        /\ SaveInit /\ WizardInit /\ UndoInit /\ VaultInit /\ NightlyInit
  BY DEF PartsInit
<1>2. [PartsNext]_AllVars =>
        /\ [Next]_vars /\ [CacheNext]_cacheVars /\ [DialogNext]_dialogVars
        /\ [SearchNext]_searchVars /\ [FilterNext]_filterVars /\ [EditNext]_editVars
        /\ [SaveNext]_saveVars /\ [WizardNext]_wizardVars /\ [UndoNext]_undoVars
        /\ [VaultNext]_vaultVars /\ [NightlyNext]_nightlyVars
  BY StepOfEveryPart, RestOfEveryPart DEF gatewayVars
<1> QED
  BY <1>1, <1>2, PTL DEF PartsSpec, EveryPart, Spec, CacheSpec, DialogSpec, SearchSpec,
     FilterSpec, EditSpec, SaveSpec, WizardSpec, UndoSpec, VaultSpec, NightlySpec

\* The part that takes the steps keeps its types, for any values of the constants under
\* which the calls of the gateway go to paths that record a write once.
THEOREM PartsTypeCorrect ==
    ASSUME WritesAreRecordedOnce
    PROVE  PartsSpec => []AllTypesOK
<1>1. /\ TypeOK /\ CacheTypeOK /\ DialogTypeOK /\ SearchTypeOK /\ FilterTypeOK /\ EditTypeOK
      /\ SaveTypeOK /\ WizardTypeOK /\ UndoTypeOK /\ VaultTypeOK /\ NightlyTypeOK
      /\ part \in {"gateway", "cache", "dialog", "search", "filters", "edit", "save", "wizard",
                   "undo", "vault", "nightly"}
      => AllTypesOK
  BY DEF AllTypesOK
<1>2. PartsSpec => [](part \in {"gateway", "cache", "dialog", "search", "filters", "edit",
                                "save", "wizard", "undo", "vault", "nightly"})
  <2> DEFINE Chosen == part \in {"gateway", "cache", "dialog", "search", "filters", "edit",
                                 "save", "wizard", "undo", "vault", "nightly"}
  <2>1. PartsInit => Chosen
    BY DEF PartsInit
  <2>2. Chosen /\ [PartsNext]_AllVars => Chosen'
    BY DEF PartsNext, AllVars
  <2> QED
    BY <2>1, <2>2, PTL DEF PartsSpec
<1>3. WritesAreRecordedOnce
  OBVIOUS
<1>4. Spec => []TypeOK
  BY <1>3, GatewayTypeCorrect
<1> QED
  BY <1>1, <1>2, <1>4, SideBySideIsEach, CacheTypeCorrect, DialogTypeCorrect,
     SearchTypeCorrect, FilterTypeCorrect, EditTypeCorrect, SaveTypeCorrect, WizardTypeCorrect,
     UndoTypeCorrect, VaultTypeCorrect, NightlyTypeCorrect, PTL DEF EveryPart
=============================================================================
