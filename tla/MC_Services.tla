------------------------------ MODULE MC_Services ------------------------------
(***************************************************************************)
(* What the services do around the governed write: callbacks and requests, *)
(* knowledge and answers, material, work tasks and the page that lists     *)
(* them, and the timeline of a case.                                       *)
(* The parts share no state, so a behaviour picks one of them and the      *)
(* others stand still where they began.                                    *)
(***************************************************************************)
EXTENDS Intake, Triage, Ingestion, Chunking, Answering, Feedback, Records, WorkTasks,
        CaseTimeline, ReadTools, Workbench, Ranking, TLC

CONSTANTS p1, p2, p3, ann, e1, e2, e3, s1, s2, d1, d2, u1

\* Concurrent requests are interchangeable; p3 and ann never both play one part.
RequestSymmetry == Permutations({p1, p2})

TheSenderOf == [m \in Inbound |-> IF m = e2 THEN s2 ELSE s1]
TheStream == <<e1, e3, d1, e2>>
TheAnswers == {[status |-> "needs_materials", content |-> 1], [status |-> "resolved", content |-> 2]}
TheContentOf == [d \in Docs |-> d]
\* The third is a program that calls itself a text.
TheFileOf == [d \in Docs |->
  [size |-> "fits", named |-> TRUE, mime |-> "octets", excess |-> {},
   ext |-> IF d = d1 THEN "pdf" ELSE "txt",
   starts |-> CASE d = d1 -> "pdf" [] d = d2 -> "unclear" [] OTHER -> "other"]]
TheTypeOf == [i \in WorkItems |->
  CASE i = d1 -> "voice_insight" [] i = d2 -> "weekly_report" [] OTHER -> "work_task"]
\* What a page of an HR manager collects.
ManagerTypes == DOMAIN Labels
TheLimitOf == [c \in 1..Len(Collectors) |-> 2]
TheSight == [c \in Curators |-> {ann, u1}]

VARIABLE part

deskVars == <<intakeVars, triageVars, workTasksVars, timelineVars, workbenchVars>>
knowledgeVars == <<ingestVars, pages, answeringVars, feedbackVars, recordsVars, readVars, rankingVars>>
servicesVars == <<part, deskVars, knowledgeVars>>

Parts == {"intake", "triage", "worktasks", "timeline", "workbench",
          "ingestion", "chunking", "ranking", "answering", "feedback", "records", "reads"}

\* What a part may start from in several ways is fixed while another part runs.
ServicesInit ==
  /\ part \in Parts
  /\ IntakeInit /\ (part # "intake" => route = "none")
  /\ TimelineInit /\ (part # "timeline" => ~review)
  /\ TriageInit /\ WorkTasksInit /\ WorkbenchInit /\ IngestInit
  /\ IF part = "chunking" THEN PagesInit ELSE pages = <<>>
  /\ IF part = "ranking" THEN RankingInit
     ELSE /\ dense = <<>> /\ sparse = <<>> /\ variant = <<>>
          /\ level = [h \in Hits |-> "unknown"]
  /\ AnsweringInit /\ (part # "answering" => activeModel = "zhipu")
  /\ FeedbackInit /\ RecordsInit /\ ReadInit

DeskNext ==
  /\ UNCHANGED knowledgeVars
  /\ \/ /\ part = "intake" /\ IntakeNext
        /\ UNCHANGED <<triageVars, workTasksVars, timelineVars, workbenchVars>>
     \/ /\ part = "triage" /\ TriageNext
        /\ UNCHANGED <<intakeVars, workTasksVars, timelineVars, workbenchVars>>
     \/ /\ part = "worktasks" /\ WorkTasksNext
        /\ UNCHANGED <<intakeVars, triageVars, timelineVars, workbenchVars>>
     \/ /\ part = "timeline" /\ TimelineNext
        /\ UNCHANGED <<intakeVars, triageVars, workTasksVars, workbenchVars>>
     \/ /\ part = "workbench" /\ WorkbenchNext
        /\ UNCHANGED <<intakeVars, triageVars, workTasksVars, timelineVars>>

\* The pages of a document and the hits of a search never change.
KnowledgeNext ==
  /\ UNCHANGED <<deskVars, pages, rankingVars>>
  /\ \/ /\ part = "ingestion" /\ IngestNext
        /\ UNCHANGED <<answeringVars, feedbackVars, recordsVars, readVars>>
     \/ /\ part = "answering" /\ AnsweringNext
        /\ UNCHANGED <<ingestVars, feedbackVars, recordsVars, readVars>>
     \/ /\ part = "feedback" /\ FeedbackNext
        /\ UNCHANGED <<ingestVars, answeringVars, recordsVars, readVars>>
     \/ /\ part = "records" /\ RecordsNext
        /\ UNCHANGED <<ingestVars, answeringVars, feedbackVars, readVars>>
     \/ /\ part = "reads" /\ ReadNext
        /\ UNCHANGED <<ingestVars, answeringVars, feedbackVars, recordsVars>>

ServicesNext == UNCHANGED part /\ (DeskNext \/ KnowledgeNext)

ServicesSpec == ServicesInit /\ [][ServicesNext]_servicesVars

\* Every variable of the part that runs has its type.
ServicesTypeOK ==
  CASE part = "intake" -> IntakeTypeOK [] part = "triage" -> TriageTypeOK
    [] part = "worktasks" -> WorkTasksTypeOK [] part = "timeline" -> TimelineTypeOK
    [] part = "workbench" -> WorkbenchTypeOK [] part = "ingestion" -> IngestTypeOK
    [] part = "answering" -> AnsweringTypeOK [] part = "feedback" -> FeedbackTypeOK
    [] part = "records" -> RecordsTypeOK [] part = "reads" -> ReadTypeOK
    [] part = "ranking" -> RankingTypeOK
    [] part = "chunking" -> pages \in Seq(Seq(Letters))
================================================================================
