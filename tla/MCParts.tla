------------------------------- MODULE MCParts -------------------------------
(***************************************************************************)
(* The parts that share no state with the others in the model and are small *)
(* enough for one run: a behaviour plays one scene, in which one part takes *)
(* all the steps and the others stay as they began.                         *)
(***************************************************************************)
EXTENDS CreatorPipeline, SeedCreators, OutreachTemplates, CampaignPolling, LibraryModel,
        MatchHistory, SmtpLimiter, SmtpSettings, AnalysisUpgrade, TLC

VARIABLE scene

pipelineOut == <<seedVars, editorVars, campaignVars, libraryVars, historyVars,
            limiterVars, smtpVars, upgradeVars>>
seedOut == <<pipelineVars, editorVars, campaignVars, libraryVars, historyVars,
            limiterVars, smtpVars, upgradeVars>>
editorOut == <<pipelineVars, seedVars, campaignVars, libraryVars, historyVars,
            limiterVars, smtpVars, upgradeVars>>
campaignOut == <<pipelineVars, seedVars, editorVars, libraryVars, historyVars,
            limiterVars, smtpVars, upgradeVars>>
libraryOut == <<pipelineVars, seedVars, editorVars, campaignVars, historyVars,
            limiterVars, smtpVars, upgradeVars>>
historyOut == <<pipelineVars, seedVars, editorVars, campaignVars, libraryVars,
            limiterVars, smtpVars, upgradeVars>>
limiterOut == <<pipelineVars, seedVars, editorVars, campaignVars, libraryVars,
            historyVars, smtpVars, upgradeVars>>
smtpOut == <<pipelineVars, seedVars, editorVars, campaignVars, libraryVars,
            historyVars, limiterVars, upgradeVars>>
upgradeOut == <<pipelineVars, seedVars, editorVars, campaignVars, libraryVars,
            historyVars, limiterVars, smtpVars>>

Others(out) == UNCHANGED <<scene, out>>

(* Some scenes have more than one way to begin. *)
PartsInit ==
  /\ scene \in {"pipeline", "seed", "editor", "campaigns", "library", "history",
               "limiter", "smtp", "upgrade"}
  /\ PipelineInit /\ EditorInit /\ CampaignInit /\ LibraryInit /\ HistoryInit
  /\ LimiterInit /\ SmtpInit /\ SeedInit
  /\ scene # "seed" => /\ \A r \in Rows : sheet[r] = Invalid
                       /\ \A c \in Channels : profileOf[c] = "none"
  /\ scene # "library" => isSelected
  /\ IF scene = "upgrade" THEN TRUE
     ELSE legacy = [j \in JobIds |-> CHOOSE r \in LegacyRow : TRUE] /\ sound = {}
  /\ UpgradeInit
  /\ scene # "history" => matchRow.status = "running"

PartsNext ==
  \/ scene = "pipeline" /\ PipelineNext /\ Others(pipelineOut)
  \/ scene = "seed" /\ SeedNext /\ Others(seedOut)
  \/ scene = "editor" /\ EditorNext /\ Others(editorOut)
  \/ scene = "campaigns" /\ CampaignNext /\ Others(campaignOut)
  \/ scene = "library" /\ LibraryNext /\ Others(libraryOut)
  \/ scene = "history" /\ HistoryNext /\ Others(historyOut)
  \/ scene = "limiter" /\ LimiterNext /\ Others(limiterOut)
  \/ scene = "smtp" /\ SmtpNext /\ Others(smtpOut)
  \/ scene = "upgrade" /\ UpgradeNext /\ Others(upgradeOut)

PartsSpec == PartsInit /\ [][PartsNext]_<<scene, pipelineVars, pipelineOut>>

(* The cfg takes the same model values x, y and u, v wherever two things    *)
(* are alike, since each behaviour plays one scene.                         *)
Symmetry == Permutations(Workers) \cup Permutations(Names)
=============================================================================
