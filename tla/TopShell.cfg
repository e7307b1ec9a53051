SPECIFICATION FairSpec
CONSTANT Sessions <- Top
PROPERTY DestructorReturns
