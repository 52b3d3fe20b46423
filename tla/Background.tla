------------------------------ MODULE Background ------------------------------
(***************************************************************************)
(* Eight components that share no state, side by side in one specification.*)
(* As a step of one changes nothing that another reads, a property of one  *)
(* holds of all of them together if it holds while the others stand still: *)
(* so that is how they are checked, each behaviour moving one of them.     *)
(***************************************************************************)
EXTENDS Routing, ConversationMemory, Sessions, Billing, Seeding, ChannelAdapters, Catalogue,
        Backfills

VARIABLE focus   \* the component that moves

backgroundVars ==
    <<focus, routingVars, memoryVars, sessionsVars, billingVars, seedingVars, adaptersVars,
      catalogueVars, backfillsVars>>

AllParts == {"routing", "memory", "sessions", "billing", "seeding", "adapters", "catalogue",
             "backfills"}

\* The components that stand still have one of their initial states.
BackgroundInit ==
    /\ focus \in AllParts
    /\ RoutingInit /\ (focus # "routing" => live = {})
    /\ MemoryInit
    /\ SessionsInit /\ (focus # "sessions" => lifetime = CHOOSE l \in Lifetimes : TRUE)
    /\ BillingInit /\ (focus # "billing" =>
         hiring = {} /\ today = Date(CHOOSE m \in Firsts : TRUE, 1))
    /\ SeedingInit /\ AdaptersInit /\ CatalogueInit
    /\ BackfillsInit /\ (focus # "backfills" =>
         kept = {} /\ Booted = CHOOSE b \in Boots : TRUE)

BackgroundNext ==
    \/ /\ focus = "routing" /\ RoutingNext
       /\ UNCHANGED <<focus, memoryVars, sessionsVars, billingVars, seedingVars,
                    adaptersVars, catalogueVars, backfillsVars>>
    \/ /\ focus = "memory" /\ MemoryNext
       /\ UNCHANGED <<focus, routingVars, sessionsVars, billingVars, seedingVars,
                    adaptersVars, catalogueVars, backfillsVars>>
    \/ /\ focus = "sessions" /\ SessionsNext
       /\ UNCHANGED <<focus, routingVars, memoryVars, billingVars, seedingVars, adaptersVars,
                    catalogueVars, backfillsVars>>
    \/ /\ focus = "billing" /\ BillingNext
       /\ UNCHANGED <<focus, routingVars, memoryVars, sessionsVars, seedingVars,
                    adaptersVars, catalogueVars, backfillsVars>>
    \/ /\ focus = "seeding" /\ SeedingNext
       /\ UNCHANGED <<focus, routingVars, memoryVars, sessionsVars, billingVars,
                    adaptersVars, catalogueVars, backfillsVars>>
    \/ /\ focus = "adapters" /\ AdaptersNext
       /\ UNCHANGED <<focus, routingVars, memoryVars, sessionsVars, billingVars, seedingVars,
                    catalogueVars, backfillsVars>>
    \/ /\ focus = "catalogue" /\ CatalogueNext
       /\ UNCHANGED <<focus, routingVars, memoryVars, sessionsVars, billingVars, seedingVars,
                    adaptersVars, backfillsVars>>
    \/ /\ focus = "backfills" /\ BackfillsNext
       /\ UNCHANGED <<focus, routingVars, memoryVars, sessionsVars, billingVars, seedingVars,
                    adaptersVars, catalogueVars>>

BackgroundSpec == BackgroundInit /\ [][BackgroundNext]_backgroundVars

\* The types of all, which say more than that: no administrator and no personality is seeded
\* twice, however many hosts boot at once; no message is replied to twice; an item has an
\* amount without a currency only if an edit cleared it; the index of addresses holds.
BackgroundTypeOK ==
    /\ RoutingTypeOK /\ MemoryTypeOK /\ SessionsTypeOK /\ BillingTypeOK /\ SeedingTypeOK
    /\ AdaptersTypeOK /\ CatalogueTypeOK /\ BackfillsTypeOK
================================================================================
