------------------------------- MODULE MCGit --------------------------------
(* Two repositories at the host, one or both of them allowed, and a branch *)
(* with the allowed prefix in each.                                        *)
EXTENDS GitIntegration

MCSymmetry == Permutations(Repos)

MCEnv == [kind |-> "github", enableRemote |-> TRUE, allowBranchCreate |-> TRUE,
          allowPrCreate |-> TRUE, allowLocalBranch |-> FALSE,
          tokenRef |-> TRUE, token |-> FALSE, resolver |-> "resolved", repos |-> Repos,
          enableWebhooks |-> TRUE, secretRef |-> FALSE, secret |-> TRUE, webhookRepos |-> Repos]
=============================================================================
