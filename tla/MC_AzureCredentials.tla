------------------------ MODULE MC_AzureCredentials ------------------------
(***************************************************************************)
(* azure_credentials.py for TLC: two hubs, a command line with and one    *)
(* without the three arguments.                                            *)
(***************************************************************************)
EXTENDS AzureCredentials

CONSTANTS h1, h2

MCHubs      == {h1, h2}
MCArgCounts == {2, 4}

=============================================================================
