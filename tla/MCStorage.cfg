SPECIFICATION Spec
CONSTANTS
  NULL = NULL
CONSTRAINT PosBounded
INVARIANTS
   PagesSound   AccessInside
   CrashSafe  ArchiveKept
