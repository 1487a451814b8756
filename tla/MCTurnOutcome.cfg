CONSTANTS
    People = {ann, bob}
    Criteria <- MCCriteria
    Plans <- MCPlans
SPECIFICATION Spec
INVARIANTS
    CohortIsAnswer
    NeverOrgWide
    OutageKeepsCohort
    ReferentIsCurrent
SYMMETRY Symmetry
