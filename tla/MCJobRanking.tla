---------------------------- MODULE MCJobRanking ----------------------------
(***************************************************************************)
(* Three requests over two candidates, two criteria versions and three     *)
(* vacancies.                                                              *)
(***************************************************************************)
EXTENDS JobRanking

CONSTANTS r1, r2, r3

(* Two must-haves of little weight, a preferred one of much weight. *)
Criterion(kind, type, value, weight) ==
    [kind |-> kind, type |-> type, value |-> value, level |-> NoValue, years |-> NoValue,
     weight |-> weight, review |-> FALSE]
MCCriteria ==
    << << Criterion("SKILL", "MUST_HAVE", "java", 100),
          [Criterion("SKILL_EXPERIENCE", "MUST_HAVE", "java", 100) EXCEPT !.years = 3],
          [Criterion("LANGUAGE", "PREFERRED", "english", 500) EXCEPT !.level = <<"cefr", 4>>],
          Criterion("EDUCATION", "PREFERRED", "informatics", 50) >>,
       << [Criterion("EXPERIENCE", "MUST_HAVE", NoValue, 200) EXCEPT !.years = 4],
          [Criterion("DOMAIN_EXPERIENCE", "PREFERRED", "banking", 100) EXCEPT !.years = 2],
          Criterion("CERTIFICATION", "PREFERRED", "pmp", 300) >> >>

Dated(start, end) == [start |-> start, end |-> end, current |-> FALSE]
Item(name, start, end) == [name |-> name, employment |-> 1] @@ Dated(start, end)
Profile(languages, certifications, employment, skillPeriods, domainPeriods) ==
    [skills |-> {"java"}, certifications |-> certifications,
     education |-> {[degree |-> "bsc", field |-> "informatics"]},
     languages |-> languages, employment |-> employment,
     skillPeriods |-> skillPeriods, domainPeriods |-> domainPeriods]
English(n) == {[language |-> "english", level |-> <<"cefr", n>>], [language |-> "english", level |-> NoValue]}

(* Candidate 1 meets every must-have and no preferred criterion that       *)
(* weighs; after its second analysis it has overlapping employments.       *)
(* Candidate 2 lacks a must-have and meets what weighs most; the evidence  *)
(* of its second analysis is not supported.                                *)
MCFacts ==
    [x \in {1, 2} \X {1, 2} |->
        CASE x = <<1, 1>> -> Profile(English(3), {}, <<Dated(2018, Present)>>,
                                     <<Item("java", 2019, 2022), Item("java", 2020, 2023)>>,
                                     <<Item("banking", NoValue, NoValue)>>)
          [] x = <<1, 2>> -> Profile(English(3), {}, <<Dated(2018, Present), Dated(2019, 2020)>>,
                                     <<Item("java", 2019, 2022)>>, <<Item("banking", 2019, 2021)>>)
          [] OTHER -> Profile(English(5), {"pmp"}, <<Dated(2018, 2021)>>,
                              <<Item("java", 2019, 2020), Item("java", 2019, 2021)>>,
                              <<Item("banking", 2018, 2020)>>)]

MCUnverified == {<<2, 2>>}

Symmetry == Permutations(Requests)
=============================================================================
