SPECIFICATION Spec
CONSTANTS
  Disks <- MCDisks
INVARIANTS OwnData IntactUnpacks SolidFed
PROPERTY UnpackEnds
