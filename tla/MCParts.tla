------------------------------ MODULE MCParts ------------------------------
(***************************************************************************)
(* The parts that share no state with the others, for TLC, side by side:   *)
(* which part takes the steps is chosen first, the others stay as they     *)
(* start.  This explores each of them and nothing else.                    *)
(***************************************************************************)
EXTENDS MCApiGateway, DocumentVault, NightlyRuns, Dialogs, QueryCache, SearchBox,
        ListFilters, EditForms, SaveSteps, WizardGuard, UndoWindow

VARIABLE part

gatewayVars == vars
AllVars == <<part, gatewayVars, cacheVars, dialogVars, searchVars, filterVars,
             editVars, saveVars, wizardVars, undoVars, vaultVars, nightlyVars>>

StartAsideFrom(p) ==
    /\ p # "gateway" => host = "up"
    /\ p # "cache" => m = "review" /\ q = "openProposal"
    /\ p # "dialog" => kind = "ApproveAction"
    /\ p # "search" => draft = ""
    /\ p # "filters" => place = "team"
    /\ p # "edit" => /\ editor = "OrganizationCard" /\ admin = TRUE
                     /\ server = [name |-> "a"]
    /\ p # "save" => chain = "StabilityRow"
    /\ p # "wizard" => screen = "photos"
    /\ p # "nightly" => byHand = {} /\ auto = FALSE

PartsInit ==
    /\ part \in {"gateway", "cache", "dialog", "search", "filters", "edit", "save", "wizard",
                 "undo", "vault", "nightly"}
    /\ StartAsideFrom(part)
    /\ Init /\ CacheInit /\ DialogInit /\ SearchInit /\ FilterInit
    /\ EditInit /\ SaveInit /\ WizardInit /\ UndoInit /\ VaultInit /\ NightlyInit

AsideFrom(p) ==
    /\ p # "gateway" => UNCHANGED gatewayVars
    /\ p # "cache" => UNCHANGED cacheVars
    /\ p # "dialog" => UNCHANGED dialogVars
    /\ p # "search" => UNCHANGED searchVars
    /\ p # "filters" => UNCHANGED filterVars
    /\ p # "edit" => UNCHANGED editVars
    /\ p # "save" => UNCHANGED saveVars
    /\ p # "wizard" => UNCHANGED wizardVars
    /\ p # "undo" => UNCHANGED undoVars
    /\ p # "vault" => UNCHANGED vaultVars
    /\ p # "nightly" => UNCHANGED nightlyVars

PartsNext ==
    /\ UNCHANGED part
    /\ AsideFrom(part)
    /\ \/ part = "gateway" /\ Next
       \/ part = "cache" /\ CacheNext
       \/ part = "dialog" /\ DialogNext
       \/ part = "search" /\ SearchNext
       \/ part = "filters" /\ FilterNext
       \/ part = "edit" /\ EditNext
       \/ part = "save" /\ SaveNext
       \/ part = "wizard" /\ WizardNext
       \/ part = "undo" /\ UndoNext
       \/ part = "vault" /\ VaultNext
       \/ part = "nightly" /\ NightlyNext

PartsSpec == PartsInit /\ [][PartsNext]_AllVars /\ Fairness /\ CacheFairness

\* A part that stays as it started is where one of its own behaviours starts, so its
\* invariants are asked of it only when it takes the steps.
AllTypesOK ==
    CASE part = "gateway" -> TypeOK
      [] part = "cache" -> CacheTypeOK
      [] part = "dialog" -> DialogTypeOK
      [] part = "search" -> SearchTypeOK
      [] part = "filters" -> FilterTypeOK
      [] part = "edit" -> EditTypeOK
      [] part = "save" -> SaveTypeOK
      [] part = "wizard" -> WizardTypeOK
      [] part = "undo" -> UndoTypeOK
      [] part = "vault" -> VaultTypeOK
      [] part = "nightly" -> NightlyTypeOK
=============================================================================
