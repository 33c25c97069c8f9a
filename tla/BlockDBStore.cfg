SPECIFICATION DBSpec
CONSTANT MaxBlock = 5
INVARIANTS ServedBlockHasQC ScansAreSound NeverEmpty CohortsWhole
PROPERTY FlushedSurvives
