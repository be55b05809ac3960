\* Animations are changed by a button while frames are rendered.
CONSTANTS
  Running = {"render", "next_animation", "upload_animation", "charging_status"}
SPECIFICATION Spec
INVARIANTS
  NoCircularWait
